---- MODULE Spec2Model ----
(***************************************************************************)
(* A model of WTomas/csvparser: the CSV tokenizer (src/src/csv-tokenizer.ts) *)
(* and the schema-driven parser built on it (src/src/parser.ts, the class  *)
(* with row validators and case-insensitive column names).                 *)
(*                                                                         *)
(* Text is a sequence of one-character strings; the tokenizer and the      *)
(* parser are operators that compute what the code computes, and the       *)
(* builder calls col/val and the call parse are the actions.  Where the    *)
(* identity of parser objects matters, they and their arrays are kept in a *)
(* heap and referred to by their positions in it.                          *)
(***************************************************************************)
EXTENDS Integers, Sequences, FiniteSets, TLC

VARIABLES parser, input, outcome, result, thrown, calls, tok, tokenizer, heap, work

vars == <<parser, input, outcome, result, thrown, calls, tok, tokenizer, heap, work>>

(***************************************************************************)
(* Bounds of the model.                                                    *)
(***************************************************************************)
MaxCols == 2
MaxVals == 2
MaxRows == 2

(***************************************************************************)
(* Text helpers: JavaScript string operations on sequences of characters.  *)
(***************************************************************************)
NL == "\n"
CR == "\r"
SP == " "
QT == "\""

IsWhitespace(c) == c \in {SP, "\t", NL, CR}

RECURSIVE TrimStart(_)
TrimStart(s) ==
    IF s = <<>> THEN <<>>
    ELSE IF IsWhitespace(Head(s)) THEN TrimStart(Tail(s)) ELSE s

RECURSIVE TrimEnd(_)
TrimEnd(s) ==
    IF s = <<>> THEN <<>>
    ELSE IF IsWhitespace(s[Len(s)]) THEN TrimEnd(SubSeq(s, 1, Len(s) - 1)) ELSE s

Trim(s) == TrimEnd(TrimStart(s))

LowerChar(c) ==
    CASE c = "A" -> "a"
      [] c = "B" -> "b"
      [] c = "C" -> "c"
      [] c = "X" -> "x"
      [] c = "Z" -> "z"
      [] OTHER -> c

UpperChar(c) ==
    CASE c = "a" -> "A"
      [] c = "b" -> "B"
      [] c = "c" -> "C"
      [] c = "x" -> "X"
      [] c = "z" -> "Z"
      [] OTHER -> c

ToLowerCase(s) == [i \in 1..Len(s) |-> LowerChar(s[i])]

ToUpperCase(s) == [i \in 1..Len(s) |-> UpperChar(s[i])]

\* line.substr(position, n) with a 0-based position
Substr(line, position, n) ==
    SubSeq(line, position + 1, IF position + n > Len(line) THEN Len(line) ELSE position + n)

RECURSIVE Join(_, _)
Join(parts, sep) ==
    IF parts = <<>> THEN <<>>
    ELSE IF Len(parts) = 1 THEN parts[1]
    ELSE parts[1] \o sep \o Join(Tail(parts), sep)

RECURSIVE Flatten(_)
Flatten(seqs) ==
    IF seqs = <<>> THEN <<>> ELSE Head(seqs) \o Flatten(Tail(seqs))

\* input.split(/\r?\n/): "cur" is the line being collected
RECURSIVE SplitFrom(_, _)
SplitFrom(s, cur) ==
    IF s = <<>> THEN <<cur>>
    ELSE IF Head(s) = NL
         THEN LET line == IF cur # <<>> /\ cur[Len(cur)] = CR
                          THEN SubSeq(cur, 1, Len(cur) - 1) ELSE cur
              IN  <<line>> \o SplitFrom(Tail(s), <<>>)
         ELSE SplitFrom(Tail(s), Append(cur, Head(s)))

SplitLines(s) == SplitFrom(s, <<>>)

(***************************************************************************)
(* The tokenizer, src/src/csv-tokenizer.ts lines 1-189.                    *)
(***************************************************************************)
\* the ParseConfig parseCSV builds from the parser options (o || default)
ParseConfig(options) ==
    [delimiter |-> IF options.delimiter = <<>> THEN <<",">> ELSE options.delimiter,
     quote |-> IF options.quote = "" THEN QT ELSE options.quote,
     escape |-> IF options.escape = "" THEN QT ELSE options.escape,
     skipRows |-> options.skipRows,
     skipEmptyLines |-> options.skipEmptyLines]

InitialParseState ==
    [currentField |-> <<>>, currentRow |-> <<>>, inQuotes |-> FALSE,
     rows |-> <<>>, headers |-> <<>>, lineIndex |-> 0]

\* the while loop of processLine: scan holds position, field, inQuotes, row
RECURSIVE ScanLine(_, _, _)
ScanLine(line, config, scan) ==
    LET position == scan.position
        dlen == Len(config.delimiter)
    IN
    IF position >= Len(line) THEN scan
    ELSE
      LET char == line[position + 1]
          hasNext == position + 1 < Len(line)
      IN
      IF scan.inQuotes
      THEN IF char = config.quote
           THEN IF hasNext /\ line[position + 2] = config.quote
                           /\ config.escape = config.quote
                THEN ScanLine(line, config,
                       [scan EXCEPT !.field = Append(@, config.quote),
                                    !.position = @ + 2])
                ELSE ScanLine(line, config,
                       [scan EXCEPT !.inQuotes = FALSE, !.position = @ + 1])
           ELSE IF char = config.escape /\ config.escape # config.quote
                     /\ hasNext /\ line[position + 2] = config.quote
                THEN ScanLine(line, config,
                       [scan EXCEPT !.field = Append(@, config.quote),
                                    !.position = @ + 2])
                ELSE ScanLine(line, config,
                       [scan EXCEPT !.field = Append(@, char),
                                    !.position = @ + 1])
      ELSE IF Substr(line, position, dlen) = config.delimiter
           THEN ScanLine(line, config,
                  [scan EXCEPT !.row = Append(@, scan.field),
                               !.field = <<>>,
                               !.position = @ + dlen])
           ELSE IF char = config.quote
                     /\ (position = 0
                         \/ line[position] = config.delimiter[dlen]
                         \/ scan.field = <<>>)
                THEN ScanLine(line, config,
                       [scan EXCEPT !.inQuotes = TRUE, !.position = @ + 1])
                ELSE ScanLine(line, config,
                       [scan EXCEPT !.field = Append(@, char),
                                    !.position = @ + 1])

\* (faulty variant) a row of one empty field is never added
ShouldAddRowNonEmptyOnly(config, completedRow) ==
    \/ \E i \in 1..Len(completedRow) : completedRow[i] # <<>>
    \/ Len(completedRow) > 1

\* completedRow.some(f => f !== '') || completedRow.length > 1
ShouldAddRow(config, completedRow) ==
    \/ ~config.skipEmptyLines
    \/ \E i \in 1..Len(completedRow) : completedRow[i] # <<>>
    \/ Len(completedRow) > 1

processLine(line, state, config, isLastLine) ==
    IF config.skipEmptyLines /\ Trim(line) = <<>> /\ ~state.inQuotes
    THEN state
    ELSE
      LET scan == ScanLine(line, config,
                    [position |-> 0, field |-> state.currentField,
                     inQuotes |-> state.inQuotes, row |-> state.currentRow])
          completedRow == Append(scan.row, scan.field)
      IN
      IF scan.inQuotes /\ ~isLastLine
      THEN [state EXCEPT !.currentField = Append(scan.field, NL),
                         !.currentRow = scan.row,
                         !.inQuotes = TRUE]
      ELSE IF state.lineIndex = 0
           THEN [currentField |-> <<>>, currentRow |-> <<>>, inQuotes |-> FALSE,
                 rows |-> state.rows, headers |-> completedRow,
                 lineIndex |-> state.lineIndex + 1]
           ELSE [currentField |-> <<>>, currentRow |-> <<>>, inQuotes |-> FALSE,
                 rows |-> IF ShouldAddRow(config, completedRow)
                          THEN Append(state.rows, completedRow) ELSE state.rows,
                 headers |-> state.headers,
                 lineIndex |-> state.lineIndex + 1]

finalizeParsing(state, config) ==
    IF state.currentField # <<>> \/ Len(state.currentRow) > 0
    THEN LET finalRow == Append(state.currentRow, state.currentField)
         IN  IF state.lineIndex = 0
             THEN [state EXCEPT !.headers = finalRow]
             ELSE [state EXCEPT !.rows = IF ShouldAddRow(config, finalRow)
                                         THEN Append(@, finalRow) ELSE @]
    ELSE state

\* the reduce over the relevant lines; i is the 0-based originalIndex
RECURSIVE ReduceLines(_, _, _, _)
ReduceLines(lines, i, state, config) ==
    IF i >= Len(lines) THEN state
    ELSE ReduceLines(lines, i + 1,
           IF i >= config.skipRows
           THEN processLine(lines[i + 1], state, config, i = Len(lines) - 1)
           ELSE state,
           config)

parseCSV(text, options) ==
    LET config == ParseConfig(options)
        lines == SplitLines(text)
        finalState == ReduceLines(lines, 0, InitialParseState, config)
        final == finalizeParsing(finalState, config)
    IN  [headers |-> final.headers, rows |-> final.rows]

(***************************************************************************)
(* The tokenizer step by step: what parseCSV and processLine do between    *)
(* two characters and between two physical lines.                          *)
(***************************************************************************)
\* (faulty variant) no line is left out
IsSkippedNever(index, config) == FALSE

\* the filter of parseCSV: a line with originalIndex < config.skipRows is left out
IsSkipped(index, config) == index < config.skipRows

\* (faulty variant) only a line of length zero counts as empty
IsEmptyLineNoTrim(line, state, config) ==
    config.skipEmptyLines /\ line = <<>> /\ ~state.inQuotes

\* the first test of processLine: the line is left out
IsEmptyLine(line, state, config) ==
    config.skipEmptyLines /\ Trim(line) = <<>> /\ ~state.inQuotes

\* the locals of processLine before its loop
StartScan(state) ==
    [position |-> 0, field |-> state.currentField,
     inQuotes |-> state.inQuotes, row |-> state.currentRow]

\* (faulty variant) inside quotes every quote character closes the field
ScanStepNoEscape(line, config, scan) ==
    IF scan.inQuotes
    THEN IF line[scan.position + 1] = config.quote
         THEN [scan EXCEPT !.inQuotes = FALSE, !.position = @ + 1]
         ELSE [scan EXCEPT !.field = Append(@, line[scan.position + 1]),
                           !.position = @ + 1]
    ELSE IF Substr(line, scan.position, Len(config.delimiter)) = config.delimiter
         THEN [scan EXCEPT !.row = Append(@, scan.field), !.field = <<>>,
                           !.position = @ + Len(config.delimiter)]
         ELSE IF line[scan.position + 1] = config.quote
                   /\ (scan.position = 0
                       \/ line[scan.position] = config.delimiter[Len(config.delimiter)]
                       \/ scan.field = <<>>)
              THEN [scan EXCEPT !.inQuotes = TRUE, !.position = @ + 1]
              ELSE [scan EXCEPT !.field = Append(@, line[scan.position + 1]),
                                !.position = @ + 1]

\* (faulty variant) the first character of the delimiter ends the field
ScanStepFirstCharDelimiter(line, config, scan) ==
    IF scan.inQuotes
    THEN IF line[scan.position + 1] = config.quote
         THEN IF scan.position + 1 < Len(line) /\ line[scan.position + 2] = config.quote
                 /\ config.escape = config.quote
              THEN [scan EXCEPT !.field = Append(@, config.quote), !.position = @ + 2]
              ELSE [scan EXCEPT !.inQuotes = FALSE, !.position = @ + 1]
         ELSE IF line[scan.position + 1] = config.escape /\ config.escape # config.quote
                   /\ scan.position + 1 < Len(line)
                   /\ line[scan.position + 2] = config.quote
              THEN [scan EXCEPT !.field = Append(@, config.quote), !.position = @ + 2]
              ELSE [scan EXCEPT !.field = Append(@, line[scan.position + 1]),
                                !.position = @ + 1]
    ELSE IF line[scan.position + 1] = config.delimiter[1]
         THEN [scan EXCEPT !.row = Append(@, scan.field), !.field = <<>>,
                           !.position = @ + 1]
         ELSE IF line[scan.position + 1] = config.quote
                   /\ (scan.position = 0
                       \/ line[scan.position] = config.delimiter[Len(config.delimiter)]
                       \/ scan.field = <<>>)
              THEN [scan EXCEPT !.inQuotes = TRUE, !.position = @ + 1]
              ELSE [scan EXCEPT !.field = Append(@, line[scan.position + 1]),
                                !.position = @ + 1]

\* one iteration of the while loop of processLine, position < line.length
ScanStep(line, config, scan) ==
    LET position == scan.position
        dlen == Len(config.delimiter)
        char == line[position + 1]
        hasNext == position + 1 < Len(line)
    IN
    IF scan.inQuotes
    THEN IF char = config.quote
         THEN IF hasNext /\ line[position + 2] = config.quote
                         /\ config.escape = config.quote
              THEN [scan EXCEPT !.field = Append(@, config.quote), !.position = @ + 2]
              ELSE [scan EXCEPT !.inQuotes = FALSE, !.position = @ + 1]
         ELSE IF char = config.escape /\ config.escape # config.quote
                   /\ hasNext /\ line[position + 2] = config.quote
              THEN [scan EXCEPT !.field = Append(@, config.quote), !.position = @ + 2]
              ELSE [scan EXCEPT !.field = Append(@, char), !.position = @ + 1]
    ELSE IF Substr(line, position, dlen) = config.delimiter
         THEN [scan EXCEPT !.row = Append(@, scan.field), !.field = <<>>,
                           !.position = @ + dlen]
         ELSE IF char = config.quote
                   /\ (position = 0
                       \/ line[position] = config.delimiter[dlen]
                       \/ scan.field = <<>>)
              THEN [scan EXCEPT !.inQuotes = TRUE, !.position = @ + 1]
              ELSE [scan EXCEPT !.field = Append(@, char), !.position = @ + 1]

\* processLine after its loop: the line continues in quotes, or the row is
\* complete and becomes the header or a data row
\* (faulty variant) the completed row is the row without the pending field
CompleteLineWithoutField(state, config, scan, isLastLine) ==
    IF scan.inQuotes /\ ~isLastLine
    THEN [state EXCEPT !.currentField = Append(scan.field, NL),
                       !.currentRow = scan.row,
                       !.inQuotes = TRUE]
    ELSE IF state.lineIndex = 0
         THEN [currentField |-> <<>>, currentRow |-> <<>>, inQuotes |-> FALSE,
               rows |-> state.rows, headers |-> scan.row,
               lineIndex |-> state.lineIndex + 1]
         ELSE [currentField |-> <<>>, currentRow |-> <<>>, inQuotes |-> FALSE,
               rows |-> IF ShouldAddRow(config, scan.row)
                        THEN Append(state.rows, scan.row)
                        ELSE state.rows,
               headers |-> state.headers,
               lineIndex |-> state.lineIndex + 1]

CompleteLine(state, config, scan, isLastLine) ==
    IF scan.inQuotes /\ ~isLastLine
    THEN [state EXCEPT !.currentField = Append(scan.field, NL),
                       !.currentRow = scan.row,
                       !.inQuotes = TRUE]
    ELSE IF state.lineIndex = 0
         THEN [currentField |-> <<>>, currentRow |-> <<>>, inQuotes |-> FALSE,
               rows |-> state.rows, headers |-> Append(scan.row, scan.field),
               lineIndex |-> state.lineIndex + 1]
         ELSE [currentField |-> <<>>, currentRow |-> <<>>, inQuotes |-> FALSE,
               rows |-> IF ShouldAddRow(config, Append(scan.row, scan.field))
                        THEN Append(state.rows, Append(scan.row, scan.field))
                        ELSE state.rows,
               headers |-> state.headers,
               lineIndex |-> state.lineIndex + 1]

(***************************************************************************)
(* Values: a JavaScript value is a tagged record; strings carry their text.*)
(***************************************************************************)
Str(s) == [t |-> "string", v |-> s]
Null == [t |-> "null", v |-> <<>>]
Undefined == [t |-> "undefined", v |-> <<>>]

\* JavaScript truthiness of a string-or-undefined value: if (x)
Truthy(x) == x.t = "string" /\ x.v # <<>>

\* what `throw` raised: e instanceof Error, and the message it carries
ErrorObject(msg) == [isError |-> TRUE, message |-> msg]
RawThrown(msg) == [isError |-> FALSE, message |-> msg]
NoException == [isError |-> FALSE, message |-> <<>>]

(***************************************************************************)
(* User callbacks.  A callback is named by its kind; what it does to a     *)
(* value is fixed by the kind, as the function passed by the caller is.    *)
(***************************************************************************)
BadValue(s) == ToLowerCase(s) = <<"x">>

\* options.transform: (value: string) => any
transformFn(kind, value) ==
    CASE kind = "failError" /\ BadValue(value) ->
           [threw |-> TRUE, value |-> Undefined, exc |-> ErrorObject(<<"Cannot transform">>)]
      [] kind = "failString" /\ BadValue(value) ->
           [threw |-> TRUE, value |-> Undefined, exc |-> RawThrown(<<"raw failure">>)]
      [] OTHER ->
           [threw |-> FALSE, value |-> Str(ToUpperCase(value)), exc |-> NoException]

\* options.validate: (value: T) => string | undefined
validateFn(kind, value) ==
    CASE kind = "reject" /\ BadValue(value.v) ->
           [threw |-> FALSE, ret |-> Str(<<"Value rejected">>), exc |-> NoException]
      [] kind = "throws" /\ BadValue(value.v) ->
           [threw |-> TRUE, ret |-> Undefined, exc |-> ErrorObject(<<"Validator crashed">>)]
      [] OTHER ->
           [threw |-> FALSE, ret |-> Undefined, exc |-> NoException]

\* record[key], undefined when the record has no such property
GetProp(record, key) ==
    IF \E i \in 1..Len(record) : record[i].key = key
    THEN record[CHOOSE i \in 1..Len(record) : record[i].key = key].value
    ELSE Undefined

\* a RowValidator: (row: T) => string | undefined
rowValidatorFn(kind, record) ==
    CASE kind = "checkP" /\ BadValue(GetProp(record, <<"p">>).v) ->
           [threw |-> FALSE, ret |-> Str(<<"p is invalid">>), exc |-> NoException]
      [] kind = "checkQ" /\ BadValue(GetProp(record, <<"q">>).v) ->
           [threw |-> FALSE, ret |-> Str(<<"q is invalid">>), exc |-> NoException]
      [] kind = "blank" /\ BadValue(GetProp(record, <<"p">>).v) ->
           [threw |-> FALSE, ret |-> Str(<<>>), exc |-> NoException]
      [] OTHER ->
           [threw |-> FALSE, ret |-> Undefined, exc |-> NoException]

(***************************************************************************)
(* The parser, src/src/parser.ts lines 254-571.                            *)
(***************************************************************************)
\* the options object the constructor builds: defaults, then the caller's
DefaultOptions ==
    [delimiter |-> <<",">>, quote |-> QT, escape |-> QT, skipEmptyLines |-> TRUE,
     skipRows |-> 0, trim |-> TRUE, caseInsensitiveColumnNames |-> FALSE]

NewParser(options) == [columns |-> <<>>, options |-> options, rowValidators |-> <<>>]

\* { trim: this.options.trim, caseInsensitiveColumnNames: ..., ...options };
\* "declared" keeps the options object as the caller passed it
\* (faulty variant) the column's own option is ignored
InheritParserOnly(given, parserDefault) == parserDefault

Inherit(given, parserDefault) ==
    IF given = "unset" THEN parserDefault ELSE given = "true"

col(this, csvNames, propertyName, options) ==
    [this EXCEPT !.columns = Append(@,
        [csvNames |-> csvNames,
         propertyName |-> propertyName,
         declared |-> options,
         options |-> [trim |-> Inherit(options.trim, this.options.trim),
                      caseInsensitiveColumnNames |->
                          Inherit(options.caseInsensitiveColumnNames,
                                  this.options.caseInsensitiveColumnNames),
                      nullable |-> options.nullable,
                      defaultValue |-> options.defaultValue,
                      transform |-> options.transform,
                      validate |-> options.validate]])]

val(this, validator) == [this EXCEPT !.rowValidators = Append(@, validator)]

\* headers.reduce((map, header, index) => map.set(header, index), new Map()):
\* entries in first-insertion order, each with the index set last
RECURSIVE BuildHeaderIndex(_, _, _)
BuildHeaderIndex(headers, i, map) ==
    IF i > Len(headers) THEN map
    ELSE LET header == headers[i]
             known == \E k \in 1..Len(map) : map[k].key = header
         IN  BuildHeaderIndex(headers, i + 1,
               IF known
               THEN [k \in 1..Len(map) |->
                       IF map[k].key = header
                       THEN [key |-> header, index |-> i - 1] ELSE map[k]]
               ELSE Append(map, [key |-> header, index |-> i - 1]))

HeaderIndex(headers) == BuildHeaderIndex(headers, 1, <<>>)

MapHas(map, key) == \E k \in 1..Len(map) : map[k].key = key
MapGet(map, key) == map[CHOOSE k \in 1..Len(map) : map[k].key = key].index

NoMatch == [found |-> FALSE, columnIndex |-> 0, columnName |-> <<>>]

findCaseInsensitiveMatch(csvNames, headerIndex) ==
    LET hit(n) == \E k \in 1..Len(headerIndex) :
                     ToLowerCase(headerIndex[k].key) = ToLowerCase(csvNames[n])
    IN  IF \E n \in 1..Len(csvNames) : hit(n)
        THEN LET n == CHOOSE m \in 1..Len(csvNames) :
                        hit(m) /\ \A j \in 1..(m - 1) : ~hit(j)
                 k == CHOOSE e \in 1..Len(headerIndex) :
                        /\ ToLowerCase(headerIndex[e].key) = ToLowerCase(csvNames[n])
                        /\ \A j \in 1..(e - 1) :
                             ToLowerCase(headerIndex[j].key) # ToLowerCase(csvNames[n])
             IN  [found |-> TRUE, columnIndex |-> headerIndex[k].index,
                  columnName |-> headerIndex[k].key]
        ELSE NoMatch

\* (faulty variant) with case-insensitive matching enabled, the match
\* ignoring case is tried before the exact one
findColumnMatchFoldedFirst(this, column, headerIndex) ==
    LET names == column.csvNames
        exact(n) == MapHas(headerIndex, names[n])
        folded == findCaseInsensitiveMatch(names, headerIndex)
    IN  IF column.options.caseInsensitiveColumnNames /\ folded.found
        THEN folded
        ELSE IF \E n \in 1..Len(names) : exact(n)
             THEN LET n == CHOOSE m \in 1..Len(names) :
                             exact(m) /\ \A j \in 1..(m - 1) : ~exact(j)
                  IN  [found |-> TRUE, columnIndex |-> MapGet(headerIndex, names[n]),
                       columnName |-> names[n]]
             ELSE NoMatch

findColumnMatchForColumn(this, column, headerIndex) ==
    LET names == column.csvNames
        exact(n) == MapHas(headerIndex, names[n])
    IN  IF \E n \in 1..Len(names) : exact(n)
        THEN LET n == CHOOSE m \in 1..Len(names) :
                        exact(m) /\ \A j \in 1..(m - 1) : ~exact(j)
             IN  [found |-> TRUE, columnIndex |-> MapGet(headerIndex, names[n]),
                  columnName |-> names[n]]
        ELSE IF column.options.caseInsensitiveColumnNames
             THEN findCaseInsensitiveMatch(names, headerIndex)
             ELSE NoMatch

(***************************************************************************)
(* A FieldResult is { value } or { error }; here also what the callbacks   *)
(* did: the calls made, and the exception that escaped, if any.            *)
(***************************************************************************)
NoError == [row |-> 0, column |-> Undefined, property |-> <<>>, value |-> Undefined,
            message |-> <<>>, type |-> "none"]

ValueResult(v, log) ==
    [hasValue |-> TRUE, value |-> v, hasError |-> FALSE, error |-> NoError,
     threw |-> FALSE, exc |-> NoException, calls |-> log]

ErrorResult(e, log) ==
    [hasValue |-> FALSE, value |-> Undefined, hasError |-> TRUE, error |-> e,
     threw |-> FALSE, exc |-> NoException, calls |-> log]

ThrowResult(exc, log) ==
    [hasValue |-> FALSE, value |-> Undefined, hasError |-> FALSE, error |-> NoError,
     threw |-> TRUE, exc |-> exc, calls |-> log]

Call(fn, rowIndex, who, arg) == [fn |-> fn, row |-> rowIndex, who |-> who, arg |-> arg]

\* (faulty variant) a column that no header matches is given null, required or not
handleMissingColumnAsNull(column, rowIndex) == ValueResult(Null, <<>>)

\* (faulty variant) a nullable column that no header matches is given null,
\* whatever its default
handleMissingColumnNullableFirst(column, rowIndex) ==
    IF column.options.nullable THEN ValueResult(Null, <<>>)
    ELSE IF column.options.defaultValue # Undefined
    THEN ValueResult(column.options.defaultValue, <<>>)
    ELSE ErrorResult(
           [row |-> rowIndex,
            column |-> Str(column.csvNames[1]),
            property |-> column.propertyName,
            value |-> Str(<<>>),
            message |-> <<"Column \"">> \o Join(column.csvNames, <<"\" or \"">>)
                          \o <<"\" not found">>,
            type |-> "missing"], <<>>)

handleMissingColumn(column, rowIndex) ==
    IF ~column.options.nullable /\ column.options.defaultValue = Undefined
    THEN ErrorResult(
           [row |-> rowIndex,
            column |-> Str(column.csvNames[1]),
            property |-> column.propertyName,
            value |-> Str(<<>>),
            message |-> <<"Column \"">> \o Join(column.csvNames, <<"\" or \"">>)
                          \o <<"\" not found">>,
            type |-> "missing"], <<>>)
    ELSE ValueResult(IF column.options.defaultValue # Undefined
                     THEN column.options.defaultValue ELSE Null, <<>>)

\* (faulty variant) the default value is looked at before nullable
handleEmptyValueDefaultFirst(column, columnName, rowIndex) ==
    IF column.options.defaultValue # Undefined
    THEN ValueResult(column.options.defaultValue, <<>>)
    ELSE IF column.options.nullable THEN ValueResult(Null, <<>>)
         ELSE ErrorResult(
                [row |-> rowIndex,
                 column |-> Str(columnName),
                 property |-> column.propertyName,
                 value |-> Str(<<>>),
                 message |-> <<"Required field is empty">>,
                 type |-> "validation"], <<>>)

handleEmptyValue(column, columnName, rowIndex) ==
    IF column.options.nullable THEN ValueResult(Null, <<>>)
    ELSE IF column.options.defaultValue # Undefined
         THEN ValueResult(column.options.defaultValue, <<>>)
         ELSE ErrorResult(
                [row |-> rowIndex,
                 column |-> Str(columnName),
                 property |-> column.propertyName,
                 value |-> Str(<<>>),
                 message |-> <<"Required field is empty">>,
                 type |-> "validation"], <<>>)

\* (faulty variant) the catch drops the message of the Error
TransformOutcomeGeneric(r, log) ==
    IF r.threw
    THEN [isError |-> TRUE, value |-> Undefined,
          error |-> <<"Transform function failed">>, calls |-> log]
    ELSE [isError |-> FALSE, value |-> r.value, error |-> <<>>, calls |-> log]

\* applyTransform, the try/catch around transform(value): r is what the
\* callback did
TransformOutcome(r, log) ==
    IF r.threw
    THEN [isError |-> TRUE, value |-> Undefined,
          error |-> IF r.exc.isError THEN r.exc.message
                    ELSE <<"Transform function failed">>,
          calls |-> log]
    ELSE [isError |-> FALSE, value |-> r.value, error |-> <<>>, calls |-> log]

\* { value } or { error: message }; the call made, if any
applyTransform(value, transform, rowIndex, who) ==
    IF transform = "none"
    THEN [isError |-> FALSE, value |-> Str(value), error |-> <<>>, calls |-> <<>>]
    ELSE TransformOutcome(transformFn(transform, value),
                          <<Call("transform", rowIndex, who, Str(value))>>)

\* transformAndValidate after column.options.validate?.(...) returned or threw
ValidateOutcome(v, transformed, log, value, column, columnName, rowIndex) ==
    IF v.threw THEN ThrowResult(v.exc, log)
    ELSE IF Truthy(v.ret)
         THEN ErrorResult(
                [row |-> rowIndex,
                 column |-> Str(columnName),
                 property |-> column.propertyName,
                 value |-> Str(value),
                 message |-> v.ret.v,
                 type |-> "validation"], log)
         ELSE ValueResult(transformed, log)

\* transformAndValidate after applyTransform
AfterTransform(transformResult, value, column, columnName, rowIndex, who) ==
    IF transformResult.isError
    THEN ErrorResult(
           [row |-> rowIndex,
            column |-> Str(columnName),
            property |-> column.propertyName,
            value |-> Str(value),
            message |-> transformResult.error,
            type |-> "transform"], transformResult.calls)
    ELSE IF column.options.validate = "none"
         THEN ValueResult(transformResult.value, transformResult.calls)
         ELSE ValidateOutcome(
                validateFn(column.options.validate, transformResult.value),
                transformResult.value,
                Append(transformResult.calls,
                       Call("validate", rowIndex, who, transformResult.value)),
                value, column, columnName, rowIndex)

transformAndValidate(value, column, columnName, rowIndex, who) ==
    AfterTransform(applyTransform(value, column.options.transform, rowIndex, who),
                   value, column, columnName, rowIndex, who)

\* row[match.columnIndex] || ''
RawValue(row, columnIndex) ==
    IF columnIndex + 1 <= Len(row) THEN row[columnIndex + 1] ELSE <<>>

\* processColumn once the value is trimmed
\* (faulty variant) an empty value goes through transform and validate too
WithTrimmedValueUngated(trimmedValue, column, columnName, rowIndex, who) ==
    transformAndValidate(trimmedValue, column, columnName, rowIndex, who)

WithTrimmedValue(trimmedValue, column, columnName, rowIndex, who) ==
    IF trimmedValue = <<>>
    THEN handleEmptyValue(column, columnName, rowIndex)
    ELSE transformAndValidate(trimmedValue, column, columnName, rowIndex, who)

\* (faulty variant) the field is never trimmed
TrimmedValueUntrimmed(column, rawValue) == rawValue

\* column.options.trim !== false ? rawValue.trim() : rawValue
TrimmedValue(column, rawValue) ==
    IF column.options.trim THEN Trim(rawValue) ELSE rawValue

\* processColumn once the header is looked up
WithMatch(match, column, row, rowIndex, who) ==
    IF ~match.found THEN handleMissingColumn(column, rowIndex)
    ELSE WithTrimmedValue(TrimmedValue(column, RawValue(row, match.columnIndex)),
                          column, match.columnName, rowIndex, who)

\* who is the position of the column in this.columns
processColumn(this, who, row, rowIndex, headerIndex) ==
    WithMatch(findColumnMatchForColumn(this, this.columns[who], headerIndex),
              this.columns[who], row, rowIndex, who)

\* { ...acc, [key]: value }: a known key keeps its place
SetProp(record, key, value) ==
    IF \E i \in 1..Len(record) : record[i].key = key
    THEN [i \in 1..Len(record) |->
            IF record[i].key = key THEN [key |-> key, value |-> value] ELSE record[i]]
    ELSE Append(record, [key |-> key, value |-> value])

\* JSON.stringify of a value of the model and of a record
JsonValue(x) ==
    IF x.t = "null" THEN <<"null">> ELSE <<QT>> \o x.v \o <<QT>>

JsonMember(m) ==
    IF m.value.t = "undefined" THEN <<>>
    ELSE <<(<<QT>> \o m.key \o <<QT, ":">> \o JsonValue(m.value))>>

RECURSIVE JsonMembers(_)
JsonMembers(record) ==
    IF record = <<>> THEN <<>>
    ELSE JsonMember(Head(record)) \o JsonMembers(Tail(record))

JSONStringify(record) == <<"{">> \o Join(JsonMembers(record), <<",">>) \o <<"}">>

\* an Array.map whose callback may throw: the results so far end with the
\* one that threw, and the rest is not evaluated
Cons(out, rest) == IF out.threw THEN <<out>> ELSE <<out>> \o rest

\* whether the last of the results threw
Threw(results) == Len(results) > 0 /\ results[Len(results)].threw

\* (faulty variant) the validators after the first one that objects are not run
RECURSIVE MapValidatorsUntilObjection(_, _, _)
MapValidatorsUntilObjection(this, record, k) ==
    IF k > Len(this.rowValidators) THEN <<>>
    ELSE IF Truthy(rowValidatorFn(this.rowValidators[k], record).ret)
         THEN <<rowValidatorFn(this.rowValidators[k], record)>>
         ELSE <<rowValidatorFn(this.rowValidators[k], record)>>
                \o MapValidatorsUntilObjection(this, record, k + 1)

\* this.rowValidators.map(validator => validator(record)), from k on
RECURSIVE MapValidators(_, _, _)
MapValidators(this, record, k) ==
    IF k > Len(this.rowValidators) THEN <<>>
    ELSE Cons(rowValidatorFn(this.rowValidators[k], record),
              MapValidators(this, record, k + 1))

\* the ParseError made from what the k-th validator returned, if truthy
RECURSIVE ValidatorErrors(_, _, _, _)
ValidatorErrors(outs, json, rowIndex, k) ==
    IF k > Len(outs) THEN <<>>
    ELSE (IF Truthy(outs[k].ret)
          THEN <<[row |-> rowIndex,
                  column |-> Undefined,
                  property |-> <<"_row">>,
                  value |-> Str(json),
                  message |-> outs[k].ret.v,
                  type |-> "row-validation"]>>
          ELSE <<>>) \o ValidatorErrors(outs, json, rowIndex, k + 1)

ValidatorCalls(outs, json, rowIndex) ==
    [k \in 1..Len(outs) |-> Call("rowValidator", rowIndex, k, Str(json))]

\* the row-validation part of processRow, after the validators ran
ValidatorOutcome(outs, json, rowIndex) ==
    [threw |-> Threw(outs),
     exc |-> IF Threw(outs) THEN outs[Len(outs)].exc ELSE NoException,
     calls |-> ValidatorCalls(outs, json, rowIndex),
     errors |-> ValidatorErrors(outs, json, rowIndex, 1)]

applyRowValidators(this, record, rowIndex) ==
    ValidatorOutcome(MapValidators(this, record, 1), JSONStringify(record), rowIndex)

\* this.columns.map(column => processColumn(...)), from column c on
RECURSIVE MapColumns(_, _, _, _, _)
MapColumns(this, row, rowIndex, headerIndex, c) ==
    IF c > Len(this.columns) THEN <<>>
    ELSE Cons(processColumn(this, c, row, rowIndex, headerIndex),
              MapColumns(this, row, rowIndex, headerIndex, c + 1))

\* (faulty variant) the row stops at its first failing column: one error at most
ColumnErrorsFirstOnly(columnResults, c) ==
    IF \E i \in c..Len(columnResults) : columnResults[i].hasError
    THEN <<columnResults[CHOOSE i \in c..Len(columnResults) :
                           /\ columnResults[i].hasError
                           /\ \A j \in c..(i - 1) : ~columnResults[j].hasError].error>>
    ELSE <<>>

\* columnResults.map(({ result }) => result.error).filter(error => error !== undefined)
RECURSIVE ColumnErrors(_, _)
ColumnErrors(columnResults, c) ==
    IF c > Len(columnResults) THEN <<>>
    ELSE (IF columnResults[c].hasError THEN <<columnResults[c].error>> ELSE <<>>)
           \o ColumnErrors(columnResults, c + 1)

RECURSIVE ColumnCalls(_, _)
ColumnCalls(columnResults, c) ==
    IF c > Len(columnResults) THEN <<>>
    ELSE columnResults[c].calls \o ColumnCalls(columnResults, c + 1)

\* (faulty variant) a null value is left out of the record
RECURSIVE BuildRecordSkippingNull(_, _, _)
BuildRecordSkippingNull(this, columnResults, i) ==
    IF i = 0 THEN <<>>
    ELSE IF columnResults[i].hasValue /\ columnResults[i].value # Null
         THEN SetProp(BuildRecordSkippingNull(this, columnResults, i - 1),
                      this.columns[i].propertyName, columnResults[i].value)
         ELSE BuildRecordSkippingNull(this, columnResults, i - 1)

\* columnResults.reduce((acc, { column, result }) => 'value' in result ? ... : acc, {})
RECURSIVE BuildRecord(_, _, _)
BuildRecord(this, columnResults, i) ==
    IF i = 0 THEN <<>>
    ELSE IF columnResults[i].hasValue
         THEN SetProp(BuildRecord(this, columnResults, i - 1),
                      this.columns[i].propertyName, columnResults[i].value)
         ELSE BuildRecord(this, columnResults, i - 1)

\* the end of processRow: errors.push(...rowValidationErrors); return
RowResult(record, errors, columnCalls, rv) ==
    [threw |-> rv.threw, exc |-> rv.exc, record |-> record,
     errors |-> errors \o rv.errors, calls |-> columnCalls \o rv.calls]

NoValidation == [threw |-> FALSE, exc |-> NoException, calls |-> <<>>, errors |-> <<>>]

\* (faulty variant) the row validators run whether or not a column failed
ValidateRowAlways(this, record, errors, columnCalls, rowIndex) ==
    RowResult(record, errors, columnCalls,
              IF Len(this.rowValidators) > 0
              THEN applyRowValidators(this, record, rowIndex)
              ELSE NoValidation)

\* processRow once errors and record are computed: the row validators run
\* only if there are no column errors
ValidateRow(this, record, errors, columnCalls, rowIndex) ==
    RowResult(record, errors, columnCalls,
              IF Len(errors) = 0 /\ Len(this.rowValidators) > 0
              THEN applyRowValidators(this, record, rowIndex)
              ELSE NoValidation)

\* processRow after the map over the columns
AfterColumns(this, columnResults, rowIndex) ==
    IF Threw(columnResults)
    THEN [threw |-> TRUE, exc |-> columnResults[Len(columnResults)].exc,
          record |-> <<>>, errors |-> <<>>,
          calls |-> ColumnCalls(columnResults, 1)]
    ELSE ValidateRow(this,
                     BuildRecord(this, columnResults, Len(columnResults)),
                     ColumnErrors(columnResults, 1),
                     ColumnCalls(columnResults, 1),
                     rowIndex)

\* (faulty variant) rows are numbered from 1
processRowOneBased(this, row, rowIndex, headerIndex) ==
    AfterColumns(this, MapColumns(this, row, rowIndex + 1, headerIndex, 1), rowIndex + 1)

processRow(this, row, rowIndex, headerIndex) ==
    AfterColumns(this, MapColumns(this, row, rowIndex, headerIndex, 1), rowIndex)

NoResult == [success |-> <<>>, errors |-> <<>>, hasErrors |-> FALSE]

\* rows.map((row, rowIndex) => this.processRow(...)), from the r-th row on
\* (r is 1-based, rowIndex is r - 1)
RECURSIVE MapRows(_, _, _, _)
MapRows(this, rows, headerIndex, r) ==
    IF r > Len(rows) THEN <<>>
    ELSE Cons(processRow(this, rows[r], r - 1, headerIndex),
              MapRows(this, rows, headerIndex, r + 1))

\* (faulty variant) the filter forgotten: every row's record is a success
SuccessOfUnfiltered(results, r) == [k \in 1..Len(results) |-> results[k].record]

\* results.filter(result => result.errors.length === 0).map(result => result.record)
RECURSIVE SuccessOf(_, _)
SuccessOf(results, r) ==
    IF r > Len(results) THEN <<>>
    ELSE (IF Len(results[r].errors) = 0 THEN <<results[r].record>> ELSE <<>>)
           \o SuccessOf(results, r + 1)

\* (faulty variant) the errors of the rows are concatenated last row first
RECURSIVE ErrorsOfReversed(_, _)
ErrorsOfReversed(results, r) ==
    IF r > Len(results) THEN <<>>
    ELSE ErrorsOfReversed(results, r + 1) \o results[r].errors

\* results.flatMap(result => result.errors)
RECURSIVE ErrorsOf(_, _)
ErrorsOf(results, r) ==
    IF r > Len(results) THEN <<>>
    ELSE results[r].errors \o ErrorsOf(results, r + 1)

RECURSIVE CallsOf(_, _)
CallsOf(results, r) ==
    IF r > Len(results) THEN <<>>
    ELSE results[r].calls \o CallsOf(results, r + 1)

\* return { success, errors, hasErrors: errors.length > 0 }
ParseResult(success, errors) ==
    [success |-> success, errors |-> errors, hasErrors |-> Len(errors) > 0]

\* parse after the map over the rows: the ParseResult returned, or the
\* Error thrown by the catch
AfterRows(csv, results) ==
    IF Threw(results)
    THEN [outcome |-> "thrown",
          thrown |-> <<"Failed to parse CSV: ">> \o
                       (IF results[Len(results)].exc.isError
                        THEN results[Len(results)].exc.message
                        ELSE <<"Unknown error">>),
          result |-> NoResult,
          calls |-> CallsOf(results, 1),
          tok |-> csv]
    ELSE [outcome |-> "returned",
          thrown |-> <<>>,
          result |-> ParseResult(SuccessOf(results, 1), ErrorsOf(results, 1)),
          calls |-> CallsOf(results, 1),
          tok |-> csv]

\* parse once the text is tokenized
ParseTokens(this, csv) ==
    AfterRows(csv, MapRows(this, csv.rows, HeaderIndex(csv.headers), 1))

parse(this, text) == ParseTokens(this, parseCSV(text, this.options))

(***************************************************************************)
(* The state machine: a parser value is built by col and val, and parse    *)
(* runs on it; outcome, result, thrown, calls and tok describe the last    *)
(* call of parse on the current parser value.  What the caller passes to   *)
(* the constructor, col, val and parse is drawn from the sets given.       *)
(***************************************************************************)
NoTokens == [headers |-> <<>>, rows |-> <<>>]

\* the tokenizer when it is not being followed step by step
IdleTokenizer ==
    [pc |-> "idle", lines |-> <<>>, index |-> 0, state |-> InitialParseState,
     scan |-> StartScan(InitialParseState), joined |-> 0]

\* the parser objects and their arrays when no builder call is followed
NoHeap == [arrays |-> <<>>, objects |-> <<>>, parsed |-> 0, known |-> 0]

\* the rows of a parse call when they are not followed one by one
NoWork == [pc |-> "idle", done |-> <<>>]

\* new Parser(options)
Construct(OptionChoices) ==
    /\ parser \in { NewParser(o) : o \in OptionChoices }
    /\ input = <<>>
    /\ outcome = "none"
    /\ result = NoResult
    /\ thrown = <<>>
    /\ calls = <<>>
    /\ tok = NoTokens
    /\ tokenizer = IdleTokenizer
    /\ heap = NoHeap
    /\ work = NoWork

\* a new parser value has not parsed anything yet
Forget ==
    /\ input' = <<>>
    /\ outcome' = "none"
    /\ result' = NoResult
    /\ thrown' = <<>>
    /\ calls' = <<>>
    /\ tok' = NoTokens
    /\ UNCHANGED <<tokenizer, heap, work>>

\* property names are distinct: the k-th declared column is named by the k-th
PropertyNames == << <<"p">>, <<"q">>, <<"r">>, <<"s">> >>

\* parser.col(csvNames, propertyName, options): the new parser value
Col(ColumnChoices) ==
    /\ outcome = "none"
    /\ Len(parser.columns) < MaxCols
    /\ \E c \in ColumnChoices :
         parser' = col(parser, c.csvNames, PropertyNames[Len(parser.columns) + 1], c.options)
    /\ Forget

\* parser.val(validator): the new parser value
Val(ValidatorChoices) ==
    /\ outcome = "none"
    /\ Len(parser.rowValidators) < MaxVals
    /\ \E validator \in ValidatorChoices : parser' = val(parser, validator)
    /\ Forget

\* parser.parse(text)
Parse(Texts) ==
    /\ outcome = "none"
    /\ \E text \in Texts :
         LET r == parse(parser, text)
         IN  /\ input' = text
             /\ outcome' = r.outcome
             /\ result' = r.result
             /\ thrown' = r.thrown
             /\ calls' = r.calls
             /\ tok' = r.tok
    /\ UNCHANGED <<parser, tokenizer, heap, work>>

\* texts: a header line followed by at most n of the data lines
RECURSIVE TextsOf(_, _, _)
TextsOf(HeaderLines, DataLines, n) ==
    IF n = 0 THEN HeaderLines
    ELSE LET shorter == TextsOf(HeaderLines, DataLines, n - 1)
         IN  shorter \cup { t \o <<NL>> \o d : t \in shorter, d \in DataLines }

ColumnOptions(transform, validate) ==
    [trim |-> "unset", caseInsensitiveColumnNames |-> "unset", nullable |-> FALSE,
     defaultValue |-> Undefined, transform |-> transform, validate |-> validate]

ColumnChoice(csvNames, options) == [csvNames |-> csvNames, options |-> options]

(***************************************************************************)
(* Spec: columns with callbacks that fail, row validators, and rows whose  *)
(* fields are bad ("x"), good ("z") or absent.                             *)
(***************************************************************************)
\* column a or b with no callback, a transform that throws on a bad value
\* (an Error, or a string), a validate that rejects it or throws on it; and
\* a column that no header matches
Columns ==
    { ColumnChoice(<<(<<"a">>)>>, ColumnOptions("none", "none")),
      ColumnChoice(<<(<<"b">>)>>, ColumnOptions("none", "none")),
      ColumnChoice(<<(<<"a">>)>>, ColumnOptions("failError", "none")),
      ColumnChoice(<<(<<"a">>)>>, ColumnOptions("failString", "none")),
      ColumnChoice(<<(<<"b">>)>>, ColumnOptions("upper", "reject")),
      ColumnChoice(<<(<<"b">>)>>, ColumnOptions("none", "throws")),
      ColumnChoice(<<(<<"c">>), (<<"d">>)>>, ColumnOptions("none", "none")) }

\* checkP and checkQ object to a bad p or q with a message; blank objects to
\* a bad p with the empty string
Validators == {"checkP", "checkQ", "blank"}

Fields == { <<"x">>, <<"z">> }

Texts ==
    TextsOf({ <<"a", ",", "b">> },
            { f \o <<",">> \o g : f \in Fields, g \in Fields } \cup { <<"z">> },
            MaxRows)

Init == Construct({DefaultOptions})

Next == Col(Columns) \/ Val(Validators) \/ Parse(Texts)

Spec == Init /\ [][Next]_vars

(***************************************************************************)
(* What the claims speak of, read off the state after a call of parse.     *)
(***************************************************************************)
Returned == outcome = "returned"

DataRows == 1..Len(tok.rows)

Declared == 1..Len(parser.columns)

ColumnLevel(e) == e.type \in {"missing", "validation", "transform"}

\* the errors of the result whose row number is n, in the order of the list
RECURSIVE ErrorsNumbered(_, _)
ErrorsNumbered(errors, n) ==
    IF errors = <<>> THEN <<>>
    ELSE (IF Head(errors).row = n THEN <<Head(errors)>> ELSE <<>>)
           \o ErrorsNumbered(Tail(errors), n)

RECURSIVE OfType(_, _)
OfType(errors, types) ==
    IF errors = <<>> THEN <<>>
    ELSE (IF Head(errors).type \in types THEN <<Head(errors)>> ELSE <<>>)
           \o OfType(Tail(errors), types)

ColumnErrorsNumbered(n) ==
    OfType(ErrorsNumbered(result.errors, n), {"missing", "validation", "transform"})

RowErrorsNumbered(n) == OfType(ErrorsNumbered(result.errors, n), {"row-validation"})

\* the header a column reads under exact matching: the first alias, in
\* declared order, that is a header; 0 when no alias is a header
RECURSIVE PositionIn(_, _, _)
PositionIn(seq, x, i) ==
    IF i > Len(seq) THEN 0
    ELSE IF seq[i] = x THEN i ELSE PositionIn(seq, x, i + 1)

RECURSIVE ExactPosition(_, _)
ExactPosition(names, k) ==
    IF k > Len(names) THEN 0
    ELSE IF PositionIn(tok.headers, names[k], 1) > 0
         THEN PositionIn(tok.headers, names[k], 1)
         ELSE ExactPosition(names, k + 1)

\* the trimmed text of the field that column c reads in the r-th data row
CellText(r, c) ==
    LET i == ExactPosition(parser.columns[c].csvNames, 1)
    IN  IF i = 0 \/ i > Len(tok.rows[r]) THEN <<>> ELSE Trim(tok.rows[r][i])

Required(c) ==
    /\ ~parser.columns[c].options.nullable
    /\ parser.columns[c].options.defaultValue = Undefined

\* column c yields an error on the r-th data row (exact matching, trimming)
CellFails(r, c) ==
    LET o == parser.columns[c].options
        text == CellText(r, c)
    IN  IF ExactPosition(parser.columns[c].csvNames, 1) = 0 \/ text = <<>>
        THEN Required(c)
        ELSE \/ o.transform \in {"failError", "failString"} /\ BadValue(text)
             \/ o.validate = "reject" /\ BadValue(text)

RECURSIVE FailingColumns(_, _)
FailingColumns(r, c) ==
    IF c > Len(parser.columns) THEN <<>>
    ELSE (IF CellFails(r, c) THEN <<c>> ELSE <<>>) \o FailingColumns(r, c + 1)

\* the data rows (1-based) on which no column fails and no validator objects
ValidatorObjects(r, k) ==
    \/ parser.rowValidators[k] = "checkP" /\ Len(parser.columns) >= 1 /\ BadValue(CellText(r, 1))
    \/ parser.rowValidators[k] = "checkQ" /\ Len(parser.columns) >= 2 /\ BadValue(CellText(r, 2))

CleanRow(r) ==
    /\ FailingColumns(r, 1) = <<>>
    /\ \A k \in 1..Len(parser.rowValidators) : ~ValidatorObjects(r, k)

RECURSIVE CleanRows(_)
CleanRows(r) ==
    IF r > Len(tok.rows) THEN <<>>
    ELSE (IF CleanRow(r) THEN <<r>> ELSE <<>>) \o CleanRows(r + 1)

\* a record that has every declared property, each holding the row's field
CompleteRecordOf(record, r) ==
    /\ Len(record) = Len(parser.columns)
    /\ \A c \in Declared :
         /\ record[c].key = parser.columns[c].propertyName
         /\ record[c].value.t = "string"
         /\ ToLowerCase(record[c].value.v) = ToLowerCase(CellText(r, c))

(***************************************************************************)
(* C1. Row atomicity: success holds exactly one record per data row that   *)
(* produced no error, in row order, each record complete; a row with an    *)
(* error of a column contributes no record, whatever its other columns.    *)
(***************************************************************************)
C1_RowAtomicity ==
    Returned =>
      /\ Len(result.success) = Len(CleanRows(1))
      /\ \A j \in 1..Len(result.success) :
           CompleteRecordOf(result.success[j], CleanRows(1)[j])
      /\ Len(result.success) =
           Cardinality({ r \in DataRows : ErrorsNumbered(result.errors, r - 1) = <<>> })

\* a row with one failing and one succeeding column next to a row in success
C1_Witness ==
    /\ Returned
    /\ Len(parser.columns) = 2
    /\ Len(result.success) = 1
    /\ \E r \in DataRows : Len(FailingColumns(r, 1)) = 1

(***************************************************************************)
(* C2. Row-validator gating: for a data row with an error of a column, no  *)
(* row validator is called and no row-validation error is reported.        *)
(***************************************************************************)
ValidatorCalled(n) ==
    \E k \in 1..Len(calls) : calls[k].fn = "rowValidator" /\ calls[k].row = n

C2_ValidatorGating ==
    Returned =>
      \A r \in DataRows :
        (FailingColumns(r, 1) # <<>> \/ ColumnErrorsNumbered(r - 1) # <<>>) =>
          /\ ~ValidatorCalled(r - 1)
          /\ RowErrorsNumbered(r - 1) = <<>>

\* validators are declared; one row fails in a column and gets none of them,
\* another row has them called and is objected to
C2_Witness ==
    /\ Returned
    /\ Len(parser.rowValidators) > 0
    /\ \E r \in DataRows : ColumnErrorsNumbered(r - 1) # <<>> /\ ~ValidatorCalled(r - 1)
    /\ \E r \in DataRows : ValidatorCalled(r - 1) /\ RowErrorsNumbered(r - 1) # <<>>

(***************************************************************************)
(* What a callback did in a logged call.                                   *)
(***************************************************************************)
TransformCalls == { k \in 1..Len(calls) : calls[k].fn = "transform" }

ValidateCalls == { k \in 1..Len(calls) : calls[k].fn = "validate" }

TransformDid(k) ==
    transformFn(parser.columns[calls[k].who].options.transform, calls[k].arg.v)

ValidateDid(k) ==
    validateFn(parser.columns[calls[k].who].options.validate, calls[k].arg)

\* the column-level errors reported for the cell of a logged call
RECURSIVE OfProperty(_, _)
OfProperty(errors, property) ==
    IF errors = <<>> THEN <<>>
    ELSE (IF Head(errors).property = property THEN <<Head(errors)>> ELSE <<>>)
           \o OfProperty(Tail(errors), property)

CellErrors(n, c) ==
    OfProperty(ColumnErrorsNumbered(n), parser.columns[c].propertyName)

\* every non-empty cell of a column with a transform was passed to it
EveryCellTransformed ==
    \A r \in DataRows : \A c \in Declared :
      (parser.columns[c].options.transform # "none" /\ CellText(r, c) # <<>>) =>
        \E k \in TransformCalls :
          calls[k].row = r - 1 /\ calls[k].who = c /\ calls[k].arg = Str(CellText(r, c))

(***************************************************************************)
(* C3. An exception thrown by a validate callback is caught and reported   *)
(* as one validation error of the cell, with the exception's message, and  *)
(* parse returns a ParseResult.                                            *)
(***************************************************************************)
C3_ValidateThrowCaught ==
    \A k \in ValidateCalls :
      ValidateDid(k).threw =>
        /\ Returned
        /\ Len(CellErrors(calls[k].row, calls[k].who)) = 1
        /\ CellErrors(calls[k].row, calls[k].who)[1].type = "validation"
        /\ CellErrors(calls[k].row, calls[k].who)[1].message = ValidateDid(k).exc.message

(***************************************************************************)
(* C4. A transform that throws on a non-empty value yields exactly one     *)
(* error of type transform for the cell, whose value is the string passed  *)
(* to the transform and whose message is the message of the thrown Error,  *)
(* or "Transform function failed" when what was thrown is not an Error;    *)
(* the row gets no record, and parse goes on with the other columns and    *)
(* rows: it never ends by the throw, and later clean rows are in success.  *)
(***************************************************************************)
TransformErrorReported(k, message) ==
    LET errs == CellErrors(calls[k].row, calls[k].who)
    IN  /\ Len(errs) = 1
        /\ errs[1].type = "transform"
        /\ errs[1].value = calls[k].arg
        /\ errs[1].message = message
        /\ RowErrorsNumbered(calls[k].row) = <<>>

ColumnOf(e) == PositionIn(PropertyNames, e.property, 1)

\* every non-empty cell whose transform did not throw was passed on to the
\* column's validate
EveryCellValidated ==
    \A r \in DataRows : \A c \in Declared :
      (/\ parser.columns[c].options.validate # "none"
       /\ CellText(r, c) # <<>>
       /\ ~(parser.columns[c].options.transform \in {"failError", "failString"}
            /\ BadValue(CellText(r, c)))) =>
        \E k \in ValidateCalls : calls[k].row = r - 1 /\ calls[k].who = c

C5_EveryColumnEvaluated ==
    Returned =>
      /\ \A r \in DataRows :
           /\ Len(ColumnErrorsNumbered(r - 1)) = Len(FailingColumns(r, 1))
           /\ \A i \in 1..Len(ColumnErrorsNumbered(r - 1)) :
                ColumnOf(ColumnErrorsNumbered(r - 1)[i]) = FailingColumns(r, 1)[i]
      /\ EveryCellTransformed
      /\ EveryCellValidated

\* both columns of a row fail, and the second one's callbacks were called
\* after the first one's transform threw
C5_Witness ==
    /\ Returned
    /\ \E r \in DataRows :
         /\ Len(FailingColumns(r, 1)) = 2
         /\ Len(ColumnErrorsNumbered(r - 1)) = 2
         /\ \E k \in TransformCalls :
              /\ calls[k].row = r - 1 /\ calls[k].who = 1 /\ TransformDid(k).threw
              /\ \E j \in ValidateCalls : j > k /\ calls[j].row = r - 1 /\ calls[j].who = 2

(***************************************************************************)
(* C6. The errors list is ordered row-then-column-then-validator: the row  *)
(* values never decrease along the list (so the errors of one row are      *)
(* contiguous), the column-level errors of one row are in the order the    *)
(* columns were declared, and the row-validation errors of one row are in  *)
(* the order the validators were declared.                                 *)
(***************************************************************************)
\* the messages of the validators k, k+1, ... that object to row r, in the
\* order the validators were declared
RECURSIVE Objections(_, _)
Objections(r, k) ==
    IF k > Len(parser.rowValidators) THEN <<>>
    ELSE (IF ValidatorObjects(r, k)
          THEN <<IF parser.rowValidators[k] = "checkP"
                 THEN <<"p is invalid">> ELSE <<"q is invalid">> >>
          ELSE <<>>) \o Objections(r, k + 1)

C6_ErrorOrder ==
    Returned =>
      /\ \A i, j \in 1..Len(result.errors) :
           i < j =>
             /\ result.errors[i].row <= result.errors[j].row
             /\ (/\ result.errors[i].row = result.errors[j].row
                 /\ ColumnLevel(result.errors[i])
                 /\ ColumnLevel(result.errors[j])) =>
                  ColumnOf(result.errors[i]) < ColumnOf(result.errors[j])
             /\ (/\ result.errors[i].row = result.errors[j].row
                 /\ ColumnLevel(result.errors[j])) =>
                  ColumnLevel(result.errors[i])
      /\ \A r \in DataRows :
           FailingColumns(r, 1) = <<>> =>
             /\ Len(RowErrorsNumbered(r - 1)) = Len(Objections(r, 1))
             /\ \A i \in 1..Len(RowErrorsNumbered(r - 1)) :
                  RowErrorsNumbered(r - 1)[i].message = Objections(r, 1)[i]

\* two rows with errors: one with two column errors, or with the different
\* objections of two validators, and another row with an error of its own
C6_Witness ==
    /\ Returned
    /\ \E r, q \in DataRows :
         /\ r # q
         /\ ErrorsNumbered(result.errors, q - 1) # <<>>
         /\ \/ Len(ColumnErrorsNumbered(r - 1)) = 2
            \/ /\ Len(RowErrorsNumbered(r - 1)) = 2
               /\ RowErrorsNumbered(r - 1)[1].message # RowErrorsNumbered(r - 1)[2].message

OneRowPerLine ==
    /\ parser.options.skipRows = 0
    /\ Len(SplitLines(input)) = Len(tok.rows) + 1

C8_RowCountsHeader ==
    (Returned /\ OneRowPerLine) =>
      /\ \A i \in 1..Len(result.errors) : result.errors[i].row \in 2..(Len(tok.rows) + 1)
      /\ \A k \in DataRows :
           (ErrorsNumbered(result.errors, k + 1) # <<>>) <=> ~CleanRow(k)

(***************************************************************************)
(* SpecMatch: header matching.  The parser is constructed with or without  *)
(* caseInsensitiveColumnNames; columns have one or two aliases, their own  *)
(* caseInsensitiveColumnNames unset, true or false, and are required,      *)
(* nullable or defaulted; headers differ from the aliases by nothing, by   *)
(* letter case, or altogether.  No callbacks: every field is non-empty.    *)
(***************************************************************************)
MatchOptions ==
    { [DefaultOptions EXCEPT !.caseInsensitiveColumnNames = ci] : ci \in BOOLEAN }

MatchAliases == { <<(<<"a">>)>>, <<(<<"c">>), (<<"B">>)>>, <<(<<"c">>), (<<"d">>)>> }

MatchColumns ==
    { ColumnChoice(names,
        [ColumnOptions("none", "none") EXCEPT !.caseInsensitiveColumnNames = ci]) :
        names \in MatchAliases, ci \in {"unset", "true", "false"} }
    \cup
    { ColumnChoice(<<(<<"c">>), (<<"B">>)>>,
        [ColumnOptions("none", "none") EXCEPT !.caseInsensitiveColumnNames = ci,
                                              !.nullable = TRUE]) :
        ci \in {"unset", "true", "false"} }
    \cup
    { ColumnChoice(<<(<<"c">>), (<<"d">>)>>,
        [ColumnOptions("none", "none") EXCEPT !.defaultValue = Str(<<"z">>)]) }

MatchTexts ==
    TextsOf({ <<"a", ",", "b">>, <<"A", ",", "b">>, <<"A", ",", "a">>, <<"C", ",", "B">> },
            { <<"x", ",", "z">>, <<"z", ",", "x">> },
            MaxRows)

InitMatch == Construct(MatchOptions)

NextMatch == Col(MatchColumns) \/ Parse(MatchTexts)

SpecMatch == InitMatch /\ [][NextMatch]_vars

\* case-insensitive matching is asked for column c: by the column's own
\* option as declared, or, that being unset, by the parser's
Effective(c) ==
    \/ parser.columns[c].declared.caseInsensitiveColumnNames = "true"
    \/ /\ parser.columns[c].declared.caseInsensitiveColumnNames = "unset"
       /\ parser.options.caseInsensitiveColumnNames

\* an alias of column c is a header; is a header but for letter case
HasExact(c) ==
    \E n \in 1..Len(parser.columns[c].csvNames) : \E h \in 1..Len(tok.headers) :
      tok.headers[h] = parser.columns[c].csvNames[n]

HasFolded(c) ==
    \E n \in 1..Len(parser.columns[c].csvNames) : \E h \in 1..Len(tok.headers) :
      ToLowerCase(tok.headers[h]) = ToLowerCase(parser.columns[c].csvNames[n])

Matches(c) == HasExact(c) \/ (Effective(c) /\ HasFolded(c))

MissingErrors(n, c) == OfType(CellErrors(n, c), {"missing"})

(***************************************************************************)
(* C9. Missing-column invariant: a column with neither nullable nor        *)
(* defaultValue whose aliases match no header (exactly, or but for letter  *)
(* case when that is enabled for the column) produces exactly one error of *)
(* type missing for every data row and nothing else, so that success is    *)
(* empty; the message names all aliases joined by `" or "`.                *)
(***************************************************************************)
C9_MissingColumn ==
    Returned =>
      \A c \in Declared :
        (Required(c) /\ ~Matches(c)) =>
          /\ result.success = <<>>
          /\ \A r \in DataRows :
               /\ Len(CellErrors(r - 1, c)) = 1
               /\ CellErrors(r - 1, c)[1].type = "missing"
               /\ CellErrors(r - 1, c)[1].message =
                    <<"Column \"">>
                      \o Join(parser.columns[c].csvNames, <<"\" or \"">>)
                      \o <<"\" not found">>

\* a required column with two aliases that no header matches, next to a
\* column that is matched: two data rows, two missing errors, no success
C9_Witness ==
    /\ Returned
    /\ Len(tok.rows) = 2
    /\ Len(parser.columns) = 2
    /\ Required(1) /\ Matches(1)
    /\ Required(2) /\ ~Matches(2) /\ Len(parser.columns[2].csvNames) = 2
    /\ Len(MissingErrors(0, 2)) = 1 /\ Len(MissingErrors(1, 2)) = 1
    /\ Len(result.errors) = 2
    /\ result.success = <<>>

(***************************************************************************)
(* C10. Case-insensitive header matching is applied to a column iff the    *)
(* column's own caseInsensitiveColumnNames is true, or it is unset and the *)
(* parser's is true (the parser's default being false); when it is not     *)
(* applied, a header that differs from every alias only by letter case     *)
(* does not match and the column is treated as missing.                    *)
(***************************************************************************)
\* what the result shows of column c: a required column is seen in the
\* errors, another one in the records when every row succeeded
Observable(c) == Required(c) \/ result.errors = <<>>

\* column c was treated as missing on every data row
TreatedAsMissing(c) ==
    IF Required(c)
    THEN \A r \in DataRows : Len(MissingErrors(r - 1, c)) = 1
    ELSE \A j \in 1..Len(result.success) :
           GetProp(result.success[j], parser.columns[c].propertyName) =
             (IF parser.columns[c].options.defaultValue # Undefined
              THEN parser.columns[c].options.defaultValue ELSE Null)

\* column c was read from a header on every data row
TreatedAsMatched(c) ==
    IF Required(c)
    THEN \A r \in DataRows : MissingErrors(r - 1, c) = <<>>
    ELSE \A j \in 1..Len(result.success) :
           /\ GetProp(result.success[j], parser.columns[c].propertyName).t = "string"
           /\ GetProp(result.success[j], parser.columns[c].propertyName).v \in {<<"x">>, <<"z">>}

C10_CaseInsensitiveMatching ==
    /\ ~DefaultOptions.caseInsensitiveColumnNames
    /\ (Returned /\ Len(tok.rows) > 0) =>
         \A c \in Declared :
           Observable(c) =>
             /\ HasExact(c) => TreatedAsMatched(c)
             /\ (~HasExact(c) /\ HasFolded(c) /\ Effective(c)) => TreatedAsMatched(c)
             /\ (~HasExact(c) /\ HasFolded(c) /\ ~Effective(c)) => TreatedAsMissing(c)
             /\ ~HasFolded(c) => TreatedAsMissing(c)

\* the parser asks for case-insensitive matching; two columns whose alias
\* is a header but for letter case: the one that leaves the option unset
\* is matched, the one that sets it to false is missing
C10_Witness ==
    /\ Returned
    /\ Len(tok.rows) > 0
    /\ parser.options.caseInsensitiveColumnNames
    /\ Len(parser.columns) = 2
    /\ \A c \in Declared : Required(c) /\ ~HasExact(c) /\ HasFolded(c)
    /\ parser.columns[1].declared.caseInsensitiveColumnNames = "unset"
    /\ parser.columns[2].declared.caseInsensitiveColumnNames = "false"
    /\ TreatedAsMatched(1) /\ ~TreatedAsMissing(1)
    /\ TreatedAsMissing(2) /\ ~TreatedAsMatched(2)

(***************************************************************************)
(* C11. Exact-match priority: when an alias of a column is exactly equal   *)
(* to a header, the column resolves to that header, aliases being tried in *)
(* declared order, even if case-insensitive matching is enabled and        *)
(* another header (earlier in the header row, or equal but for case to an  *)
(* earlier alias) would match ignoring case; a match ignoring case is used *)
(* only when no alias has an exact match.                                   *)
(***************************************************************************)
\* the header (1-based) that equals but for letter case the first alias, in
\* declared order, that has such a header; 0 when there is none
FoldedHeaders == [h \in 1..Len(tok.headers) |-> ToLowerCase(tok.headers[h])]

RECURSIVE FoldedPosition(_, _)
FoldedPosition(names, k) ==
    IF k > Len(names) THEN 0
    ELSE IF PositionIn(FoldedHeaders, ToLowerCase(names[k]), 1) > 0
         THEN PositionIn(FoldedHeaders, ToLowerCase(names[k]), 1)
         ELSE FoldedPosition(names, k + 1)

\* every record of success holds for column c the field under header h
ReadsHeader(c, h) ==
    \A j \in 1..Len(result.success) :
      GetProp(result.success[j], parser.columns[c].propertyName) = Str(tok.rows[j][h])

C11_ExactMatchPriority ==
    (Returned /\ result.errors = <<>>) =>
      \A c \in Declared :
        /\ HasExact(c) => ReadsHeader(c, ExactPosition(parser.columns[c].csvNames, 1))
        /\ (~HasExact(c) /\ HasFolded(c) /\ Effective(c)) =>
             ReadsHeader(c, FoldedPosition(parser.columns[c].csvNames, 1))

\* case-insensitive matching is enabled for a column whose second alias is
\* exactly the second header while its first alias is the first header but
\* for case; the two fields of the row differ and the record has the second
C11_Witness ==
    /\ Returned
    /\ Len(result.success) > 0
    /\ result.errors = <<>>
    /\ \E c \in Declared :
         /\ Effective(c)
         /\ HasExact(c)
         /\ Len(parser.columns[c].csvNames) = 2
         /\ ExactPosition(parser.columns[c].csvNames, 1) = 2
         /\ FoldedPosition(parser.columns[c].csvNames, 1) = 1
         /\ tok.rows[1][1] # tok.rows[1][2]
         /\ ReadsHeader(c, 2)

(***************************************************************************)
(* SpecEmpty: empty fields.  The parser trims or not; column a is plain,   *)
(* column b has its own trim unset, true or false and is required,         *)
(* nullable, defaulted or both; rows have a field that is empty, blank,    *)
(* or absent because the row is short.                                     *)
(***************************************************************************)
EmptyOptions == { [DefaultOptions EXCEPT !.trim = t] : t \in BOOLEAN }

EmptyColumns ==
    { ColumnChoice(<<(<<"a">>)>>, ColumnOptions("none", "none")) }
    \cup
    { ColumnChoice(<<(<<"b">>)>>,
        [ColumnOptions("upper", "none") EXCEPT !.trim = t, !.nullable = n,
                                               !.defaultValue = d]) :
        t \in {"unset", "true", "false"}, n \in BOOLEAN, d \in {Undefined, Str(<<"d">>)} }

EmptyTexts ==
    TextsOf({ <<"a", ",", "b">> },
            { <<"z", ",", "z">>, <<"z", ",", " ">>, <<"z", ",">>, <<"z">>, <<" ", ",", "z">> },
            MaxRows)

InitEmpty == Construct(EmptyOptions)

NextEmpty == Col(EmptyColumns) \/ Parse(EmptyTexts)

SpecEmpty == InitEmpty /\ [][NextEmpty]_vars

\* the column's effective trim: its own option, or the parser's when unset
EffectiveTrim(c) ==
    \/ parser.columns[c].declared.trim = "true"
    \/ parser.columns[c].declared.trim = "unset" /\ parser.options.trim

\* the field column c reads in the r-th data row, the empty string when the
\* row is too short, after the column's effective trim
FieldText(r, c) ==
    LET h == ExactPosition(parser.columns[c].csvNames, 1)
        raw == IF h > Len(tok.rows[r]) THEN <<>> ELSE tok.rows[r][h]
    IN  IF EffectiveTrim(c) THEN Trim(raw) ELSE raw

\* the r-th data row has no error, and this is its record in success
Succeeded(r) == ErrorsNumbered(result.errors, r - 1) = <<>>

RecordOf(r) ==
    result.success[Cardinality({ q \in 1..r : ErrorsNumbered(result.errors, q - 1) = <<>> })]

(***************************************************************************)
(* C12. Empty-value handling: for a matched column whose field is empty    *)
(* after the column's effective trim (a field beyond the end of a short    *)
(* row being the empty string): a nullable column gives the record null;   *)
(* otherwise a configured default value is given to the record; otherwise  *)
(* exactly one validation error with message "Required field is empty" is  *)
(* reported, and the row has no record.  No callback sees the empty field. *)
(***************************************************************************)
C12_EmptyValue ==
    Returned =>
      \A r \in DataRows : \A c \in Declared :
        (HasExact(c) /\ FieldText(r, c) = <<>>) =>
          /\ \A k \in 1..Len(calls) : ~(calls[k].row = r - 1 /\ calls[k].who = c)
          /\ IF parser.columns[c].options.nullable
             THEN /\ CellErrors(r - 1, c) = <<>>
                  /\ Succeeded(r) =>
                       GetProp(RecordOf(r), parser.columns[c].propertyName) = Null
             ELSE IF parser.columns[c].options.defaultValue # Undefined
             THEN /\ CellErrors(r - 1, c) = <<>>
                  /\ Succeeded(r) =>
                       GetProp(RecordOf(r), parser.columns[c].propertyName) =
                         parser.columns[c].options.defaultValue
             ELSE /\ Len(CellErrors(r - 1, c)) = 1
                  /\ CellErrors(r - 1, c)[1].type = "validation"
                  /\ CellErrors(r - 1, c)[1].message = <<"Required field is empty">>
                  /\ CellErrors(r - 1, c)[1].value = Str(<<>>)
                  /\ ~Succeeded(r)

\* a short row gives null to a nullable column that also has a default, and
\* is in success; in the other row a required column reads a blank field
C12_Witness ==
    /\ Returned
    /\ Len(tok.rows) = 2
    /\ Len(parser.columns) = 2
    /\ \E r, q \in DataRows : \E c, d \in Declared :
         /\ Len(tok.rows[r]) = 1
         /\ parser.columns[c].csvNames = <<(<<"b">>)>>
         /\ parser.columns[c].options.nullable
         /\ parser.columns[c].options.defaultValue # Undefined
         /\ Succeeded(r)
         /\ GetProp(RecordOf(r), parser.columns[c].propertyName) = Null
         /\ Required(d)
         /\ Len(tok.rows[q]) = 2
         /\ tok.rows[q][ExactPosition(parser.columns[d].csvNames, 1)] = <<" ">>
         /\ FieldText(q, d) = <<>>
         /\ Len(CellErrors(q - 1, d)) = 1

(***************************************************************************)
(* C13. When a data row has no column-level error, every configured row    *)
(* validator is invoked exactly once on that row's record, in declaration  *)
(* order, whether or not an earlier validator objected; the row's          *)
(* row-validation errors are in the validators' declaration order, and a   *)
(* row with such an error is not in success.                               *)
(***************************************************************************)
\* the calls of row validators logged for the row numbered n, in order
RECURSIVE ValidatorCallsNumbered(_, _)
ValidatorCallsNumbered(log, n) ==
    IF log = <<>> THEN <<>>
    ELSE (IF Head(log).fn = "rowValidator" /\ Head(log).row = n
          THEN <<Head(log)>> ELSE <<>>) \o ValidatorCallsNumbered(Tail(log), n)

C13_AllValidatorsRun ==
    Returned =>
      /\ \A r \in DataRows :
           ColumnErrorsNumbered(r - 1) = <<>> =>
             LET made == ValidatorCallsNumbered(calls, r - 1)
             IN  /\ Len(made) = Len(parser.rowValidators)
                 /\ \A k \in 1..Len(made) :
                      /\ made[k].who = k
                      /\ made[k].arg = made[1].arg
                      /\ Succeeded(r) => made[k].arg = Str(JSONStringify(RecordOf(r)))
                 /\ Len(RowErrorsNumbered(r - 1)) = Len(Objections(r, 1))
                 /\ \A i \in 1..Len(RowErrorsNumbered(r - 1)) :
                      RowErrorsNumbered(r - 1)[i].message = Objections(r, 1)[i]
                 /\ Objections(r, 1) # <<>> => ~Succeeded(r)
      /\ Len(result.success) = Cardinality({ r \in DataRows : Succeeded(r) })

\* the first of two validators objects to a row, the second is called all
\* the same and objects too; the row is not in success, the other row is
C13_Witness ==
    /\ Returned
    /\ parser.rowValidators = <<"checkP", "checkQ">>
    /\ Len(tok.rows) = 2
    /\ Len(result.success) = 1
    /\ \E r \in DataRows :
         /\ ValidatorObjects(r, 1)
         /\ Len(ValidatorCallsNumbered(calls, r - 1)) = 2
         /\ Len(RowErrorsNumbered(r - 1)) = 2
         /\ ~Succeeded(r)

(***************************************************************************)
(* C14. Every return value of a row validator other than undefined gives   *)
(* exactly one error of type row-validation for that row, with property    *)
(* "_row", value the JSON serialization of the record, no column name, and *)
(* the returned string as message.                                         *)
(***************************************************************************)
\* what the k-th validator returns for the r-th data row, a row with no
\* column-level error: a string, or undefined
Returns(r, k) ==
    LET kind == parser.rowValidators[k]
        bad(c) == Len(parser.columns) >= c /\ BadValue(CellText(r, c))
    IN  CASE kind = "checkP" /\ bad(1) -> Str(<<"p is invalid">>)
          [] kind = "checkQ" /\ bad(2) -> Str(<<"q is invalid">>)
          [] kind = "blank" /\ bad(1) -> Str(<<>>)
          [] OTHER -> Undefined

\* the strings the validators k, k+1, ... return for row r, in order
RECURSIVE StringsReturned(_, _)
StringsReturned(r, k) ==
    IF k > Len(parser.rowValidators) THEN <<>>
    ELSE (IF Returns(r, k) # Undefined THEN <<Returns(r, k).v>> ELSE <<>>)
           \o StringsReturned(r, k + 1)

C14_EveryReturnReported ==
    Returned =>
      \A r \in DataRows :
        ColumnErrorsNumbered(r - 1) = <<>> =>
          /\ Len(RowErrorsNumbered(r - 1)) = Len(StringsReturned(r, 1))
          /\ \A i \in 1..Len(RowErrorsNumbered(r - 1)) :
               LET e == RowErrorsNumbered(r - 1)[i]
               IN  /\ e.message = StringsReturned(r, 1)[i]
                   /\ e.property = <<"_row">>
                   /\ e.column = Undefined
                   /\ e.value = ValidatorCallsNumbered(calls, r - 1)[1].arg

(***************************************************************************)
(* SpecTok: parseCSV followed step by step on one input.  tokenizer.pc is  *)
(* "line" between two physical lines, "scan" inside the loop of            *)
(* processLine, "done" when parseCSV has returned (tok is its result);     *)
(* index is the originalIndex of the next line, state the ParseState of    *)
(* the reduce, scan the locals of processLine, and joined counts the       *)
(* physical lines that ended inside a quoted field.                        *)
(***************************************************************************)
MaxLen == 5

\* the texts of at most n characters over an alphabet
RECURSIVE TextsUpTo(_, _)
TextsUpTo(alphabet, n) ==
    IF n = 0 THEN { <<>> }
    ELSE LET shorter == TextsUpTo(alphabet, n - 1)
         IN  shorter \cup { Append(t, c) : t \in shorter, c \in alphabet }

\* the options of a parseCSV call and the characters its inputs are made of
TokCase(options, alphabet) == [options |-> options, alphabet |-> alphabet]

TokCases ==
    { TokCase(DefaultOptions, {"a", ",", QT, NL, SP}),
      TokCase([DefaultOptions EXCEPT !.skipEmptyLines = FALSE], {"a", QT, NL, CR}),
      TokCase([DefaultOptions EXCEPT !.delimiter = <<":", ":">>], {"a", ":", QT, NL}),
      TokCase([DefaultOptions EXCEPT !.escape = "\\"], {"a", "\\", QT, NL}),
      TokCase([DefaultOptions EXCEPT !.skipRows = 1], {"a", ",", QT, NL}) }

Config == ParseConfig(parser.options)

\* the physical line the tokenizer is at
CurrentLine == tokenizer.lines[tokenizer.index + 1]

IsLastLine == tokenizer.index = Len(tokenizer.lines) - 1

\* parseCSV(input, options) up to the reduce
InitTok ==
    /\ \E case \in TokCases :
         /\ parser = NewParser(case.options)
         /\ input \in TextsUpTo(case.alphabet, MaxLen)
    /\ outcome = "none"
    /\ result = NoResult
    /\ thrown = <<>>
    /\ calls = <<>>
    /\ tok = NoTokens
    /\ tokenizer = [pc |-> "line", lines |-> SplitLines(input), index |-> 0,
                    state |-> InitialParseState,
                    scan |-> StartScan(InitialParseState), joined |-> 0]
    /\ heap = NoHeap
    /\ work = NoWork

\* a line before skipRows is filtered out
SkipLine ==
    /\ tokenizer.pc = "line"
    /\ tokenizer.index < Len(tokenizer.lines)
    /\ IsSkipped(tokenizer.index, Config)
    /\ tokenizer' = [tokenizer EXCEPT !.index = @ + 1]
    /\ UNCHANGED <<parser, input, outcome, result, thrown, calls, tok, heap, work>>

\* processLine begins: an empty line is left out, another one is scanned
BeginLine ==
    /\ tokenizer.pc = "line"
    /\ tokenizer.index < Len(tokenizer.lines)
    /\ ~IsSkipped(tokenizer.index, Config)
    /\ tokenizer' =
         IF IsEmptyLine(CurrentLine, tokenizer.state, Config)
         THEN [tokenizer EXCEPT !.index = @ + 1]
         ELSE [tokenizer EXCEPT !.pc = "scan", !.scan = StartScan(tokenizer.state)]
    /\ UNCHANGED <<parser, input, outcome, result, thrown, calls, tok, heap, work>>

\* one iteration of the loop of processLine
ScanChar ==
    /\ tokenizer.pc = "scan"
    /\ tokenizer.scan.position < Len(CurrentLine)
    /\ tokenizer' = [tokenizer EXCEPT !.scan = ScanStep(CurrentLine, Config, tokenizer.scan)]
    /\ UNCHANGED <<parser, input, outcome, result, thrown, calls, tok, heap, work>>

\* the loop is over: processLine returns the next ParseState
EndLine ==
    /\ tokenizer.pc = "scan"
    /\ tokenizer.scan.position >= Len(CurrentLine)
    /\ tokenizer' =
         [tokenizer EXCEPT
            !.pc = "line",
            !.index = @ + 1,
            !.state = CompleteLine(tokenizer.state, Config, tokenizer.scan, IsLastLine),
            !.joined = IF tokenizer.scan.inQuotes /\ ~IsLastLine THEN @ + 1 ELSE @]
    /\ UNCHANGED <<parser, input, outcome, result, thrown, calls, tok, heap, work>>

\* the reduce is over: finalizeParsing, and parseCSV returns
Finalize ==
    /\ tokenizer.pc = "line"
    /\ tokenizer.index >= Len(tokenizer.lines)
    /\ tokenizer' = [tokenizer EXCEPT !.pc = "done",
                                      !.state = finalizeParsing(tokenizer.state, Config)]
    /\ tok' = [headers |-> finalizeParsing(tokenizer.state, Config).headers,
               rows |-> finalizeParsing(tokenizer.state, Config).rows]
    /\ UNCHANGED <<parser, input, outcome, result, thrown, calls, heap, work>>

NextTok == SkipLine \/ BeginLine \/ ScanChar \/ EndLine \/ Finalize

SpecTok == InitTok /\ [][NextTok]_vars

Done == tokenizer.pc = "done"

\* followed step by step, parseCSV returns what parseCSV computes at once
StepsAgree == Done => tok = parseCSV(input, parser.options)

(***************************************************************************)
(* C15. For every input tokenized with skipRows = 0 and skipEmptyLines =   *)
(* false, the number of data rows is the number of physical lines (split   *)
(* at LF or CRLF) minus one for the header, and minus one for every        *)
(* physical line that ends inside a quoted field and is therefore joined   *)
(* with the next line into one row.                                        *)
(***************************************************************************)
EveryLineKept == Config.skipRows = 0 /\ ~Config.skipEmptyLines

C15_RowCount ==
    (Done /\ EveryLineKept) =>
      Len(tok.rows) = Len(tokenizer.lines) - 1 - tokenizer.joined

\* the claim as stated: one data row per physical line after the first
C15_AsStated ==
    (Done /\ EveryLineKept) => Len(tok.rows) = Len(tokenizer.lines) - 1

\* three physical lines, one of them ended by CRLF and empty: two data rows
C15_Witness ==
    /\ Done
    /\ EveryLineKept
    /\ \E i \in 1..Len(input) : input[i] = CR
    /\ Len(tokenizer.lines) = 3
    /\ tokenizer.joined = 0
    /\ \E r \in 1..Len(tok.rows) : tok.rows[r] = <<(<<>>)>>
    /\ Len(tok.rows) = 2

(***************************************************************************)
(* C16. Inside a quoted field: when the quote character is the escape      *)
(* character, two consecutive quote characters append exactly one literal  *)
(* quote and the tokenizer stays Quoted; when the escape character differs *)
(* from the quote character, the escape character immediately followed by  *)
(* the quote character appends exactly one literal quote and the tokenizer *)
(* stays Quoted; any other quote character ends the quoted field: the      *)
(* tokenizer is Unquoted and the field is unchanged.                       *)
(***************************************************************************)
\* the step is one iteration of the loop of processLine
Scanned ==
    /\ tokenizer.pc = "scan"
    /\ tokenizer'.pc = "scan"
    /\ tokenizer'.scan.position > tokenizer.scan.position

\* the character under the position, and whether the next one is a quote
Char == CurrentLine[tokenizer.scan.position + 1]

QuoteFollows ==
    /\ tokenizer.scan.position + 2 <= Len(CurrentLine)
    /\ CurrentLine[tokenizer.scan.position + 2] = Config.quote

\* the step consumed n characters, appended the characters app to the field
\* and left the tokenizer Quoted (q) or Unquoted, the row being unchanged
Consumed(n, app, q) ==
    /\ tokenizer'.scan.position = tokenizer.scan.position + n
    /\ tokenizer'.scan.field = tokenizer.scan.field \o app
    /\ tokenizer'.scan.inQuotes = q
    /\ tokenizer'.scan.row = tokenizer.scan.row

C16_QuotedTransitions ==
    [][ (Scanned /\ tokenizer.scan.inQuotes) =>
          IF Config.escape = Config.quote /\ Char = Config.quote /\ QuoteFollows
          THEN Consumed(2, <<Config.quote>>, TRUE)
          ELSE IF Config.escape # Config.quote /\ Char = Config.escape /\ QuoteFollows
          THEN Consumed(2, <<Config.quote>>, TRUE)
          ELSE IF Char = Config.quote
          THEN Consumed(1, <<>>, FALSE)
          ELSE Consumed(1, <<Char>>, TRUE) ]_vars

\* a doubled quote was just consumed inside a quoted field: the field ends
\* with one quote and the tokenizer is still Quoted
C16_Witness ==
    /\ tokenizer.pc = "scan"
    /\ Config.escape = Config.quote
    /\ tokenizer.scan.inQuotes
    /\ tokenizer.scan.position >= 3
    /\ CurrentLine[tokenizer.scan.position - 1] = Config.quote
    /\ CurrentLine[tokenizer.scan.position] = Config.quote
    /\ tokenizer.scan.field = <<"a", QT>>

(***************************************************************************)
(* C17. In the Unquoted state a field ends exactly where a full occurrence *)
(* of the delimiter string begins, for delimiters of one or several        *)
(* characters: the field goes to the row, the delimiter characters are     *)
(* consumed and belong to no field; where no full occurrence begins the    *)
(* row is left alone, and a character of a partial occurrence of the       *)
(* delimiter is appended to the field.                                     *)
(***************************************************************************)
DelimiterBegins ==
    Substr(CurrentLine, tokenizer.scan.position, Len(Config.delimiter)) = Config.delimiter

C17_DelimiterEndsField ==
    [][ (Scanned /\ ~tokenizer.scan.inQuotes) =>
          IF DelimiterBegins
          THEN /\ tokenizer'.scan.position =
                    tokenizer.scan.position + Len(Config.delimiter)
               /\ tokenizer'.scan.row = Append(tokenizer.scan.row, tokenizer.scan.field)
               /\ tokenizer'.scan.field = <<>>
               /\ ~tokenizer'.scan.inQuotes
          ELSE /\ tokenizer'.scan.row = tokenizer.scan.row
               /\ Char # Config.quote => Consumed(1, <<Char>>, FALSE) ]_vars

\* with delimiter "::" the line a:::a gave the fields a and :a
C17_Witness ==
    /\ Done
    /\ Config.delimiter = <<":", ":">>
    /\ input = <<"a", ":", ":", ":", "a">>
    /\ tok.headers = << <<"a">>, <<":", "a">> >>

(***************************************************************************)
(* C18. When a physical line ends while the tokenizer is Quoted and it is  *)
(* not the last line of the input, a single newline is appended to the     *)
(* open field, no row is emitted, and the same logical row continues on    *)
(* the next physical line (a blank physical line inside the quoted field   *)
(* is scanned, not skipped); when the input ends while still Quoted, the   *)
(* open field is finalized with what was accumulated, the row is emitted   *)
(* (as the header if there is none yet, else as a data row), and no error  *)
(* is raised.                                                              *)
(***************************************************************************)
\* the step is the end of processLine on a line that was scanned
LineEnded == tokenizer.pc = "scan" /\ tokenizer'.pc = "line"

\* the step is the beginning of processLine on the current line
LineBegun ==
    /\ tokenizer.pc = "line"
    /\ tokenizer.index < Len(tokenizer.lines)
    /\ ~IsSkipped(tokenizer.index, Config)
    /\ tokenizer' # tokenizer

C18_QuotedLineEnd ==
    [][ /\ (LineEnded /\ tokenizer.scan.inQuotes /\ ~IsLastLine) =>
             /\ tokenizer'.state.currentField = Append(tokenizer.scan.field, NL)
             /\ tokenizer'.state.currentRow = tokenizer.scan.row
             /\ tokenizer'.state.inQuotes
             /\ tokenizer'.state.rows = tokenizer.state.rows
             /\ tokenizer'.state.headers = tokenizer.state.headers
             /\ tokenizer'.state.lineIndex = tokenizer.state.lineIndex
        /\ (LineBegun /\ tokenizer.state.inQuotes) =>
             /\ tokenizer'.pc = "scan"
             /\ tokenizer'.scan.field = tokenizer.state.currentField
             /\ tokenizer'.scan.inQuotes
        /\ (LineEnded /\ tokenizer.scan.inQuotes /\ IsLastLine) =>
             /\ ~tokenizer'.state.inQuotes
             /\ IF tokenizer.state.lineIndex = 0
                THEN tokenizer'.state.headers =
                       Append(tokenizer.scan.row, tokenizer.scan.field)
                ELSE tokenizer'.state.rows =
                       Append(tokenizer.state.rows,
                              Append(tokenizer.scan.row, tokenizer.scan.field))
             /\ outcome' = "none" ]_vars

(***************************************************************************)
(* C19. The first skipRows physical lines are discarded before any other   *)
(* processing, whatever their content (a quote character on a skipped line *)
(* opens no quoted field); the header is the first retained row after      *)
(* them, and the retained lines are tokenized exactly as if the input had  *)
(* begun at physical line skipRows.                                        *)
(***************************************************************************)
\* what parseCSV returns for an input made of the physical lines after the
\* first n, nothing being skipped
RetainedTokens(n) ==
    LET retained == SubSeq(tokenizer.lines, n + 1, Len(tokenizer.lines))
        config == [Config EXCEPT !.skipRows = 0]
        final == finalizeParsing(ReduceLines(retained, 0, InitialParseState, config),
                                 config)
    IN  [headers |-> final.headers, rows |-> final.rows]

C19_SkipRows ==
    /\ (tokenizer.pc = "line" /\ tokenizer.index <= Config.skipRows) =>
         tokenizer.state = InitialParseState
    /\ Done =>
         IF Len(tokenizer.lines) <= Config.skipRows
         THEN tok = NoTokens
         ELSE tok = RetainedTokens(Config.skipRows)

\* one line is skipped, and it holds a lone quote character; the second
\* line is the header and the third is a data row
C19_Witness ==
    /\ Done
    /\ Config.skipRows = 1
    /\ tokenizer.lines = << <<QT>>, <<"a">>, <<"a">> >>
    /\ tok = [headers |-> << <<"a">> >>, rows |-> << << <<"a">> >> >>]

(***************************************************************************)
(* C20. With skipEmptyLines enabled, a physical line that is empty or      *)
(* made of whitespace only, met while no quoted field is open, produces    *)
(* neither the header nor a data row and leaves the tokenizer state        *)
(* (pending field, pending row, header, rows, row counter) unchanged.      *)
(***************************************************************************)
\* the line about to be processed is empty or made of whitespace only
BlankLineMet ==
    /\ tokenizer.pc = "line"
    /\ tokenizer.index < Len(tokenizer.lines)
    /\ tokenizer.index >= Config.skipRows
    /\ \A i \in 1..Len(CurrentLine) : IsWhitespace(CurrentLine[i])

C20_EmptyLineSkipped ==
    [][ (BlankLineMet /\ Config.skipEmptyLines /\ ~tokenizer.state.inQuotes) =>
          /\ tokenizer'.pc = "line"
          /\ tokenizer'.index = tokenizer.index + 1
          /\ tokenizer'.state.currentField = tokenizer.state.currentField
          /\ tokenizer'.state.currentRow = tokenizer.state.currentRow
          /\ tokenizer'.state.inQuotes = tokenizer.state.inQuotes
          /\ tokenizer'.state.headers = tokenizer.state.headers
          /\ tokenizer'.state.rows = tokenizer.state.rows
          /\ tokenizer'.state.lineIndex = tokenizer.state.lineIndex
          /\ tok' = tok ]_vars

\* the header a is followed by a line holding one space and by the line a:
\* the line of one space has been passed, the header is still the only row
\* met and the row counter still stands at one
C20_Witness ==
    /\ Config.skipEmptyLines
    /\ tokenizer.lines = << <<"a">>, <<SP>>, <<"a">> >>
    /\ tokenizer.pc = "line"
    /\ tokenizer.index = 2
    /\ tokenizer.state = [InitialParseState EXCEPT !.headers = << <<"a">> >>,
                                                   !.lineIndex = 1]

(***************************************************************************)
(* C21. Under every tokenizer configuration, an input that is the empty    *)
(* string, or whose physical lines are all discarded by skipRows,          *)
(* tokenizes to an empty header list and an empty list of rows; an input   *)
(* made of a single header line tokenizes to that populated header and an  *)
(* empty list of rows.                                                     *)
(***************************************************************************)
\* every physical line of the input is before skipRows
EntirelySkipped == Len(tokenizer.lines) <= Config.skipRows

\* one physical line is retained, and it is not a blank line left out by
\* skipEmptyLines
SingleHeaderLine ==
    /\ Len(tokenizer.lines) = Config.skipRows + 1
    /\ ~(Config.skipEmptyLines /\ Trim(tokenizer.lines[Len(tokenizer.lines)]) = <<>>)

C21_EmptyAndHeaderOnly ==
    Done =>
      /\ (input = <<>> \/ EntirelySkipped) => tok = NoTokens
      /\ SingleHeaderLine => (tok.headers # <<>> /\ tok.rows = <<>>)

(***************************************************************************)
(* SpecBuild: parser objects on a heap.  A parser object holds references  *)
(* to its columns array and its rowValidators array and its options; col   *)
(* and val are called on any object made so far, and parse on one of them. *)
(***************************************************************************)
MaxObjects == 4

\* the parser a heap object stands for, its arrays read through its references
Value(h, this) ==
    [columns |-> h.arrays[h.objects[this].columns],
     options |-> h.objects[this].options,
     rowValidators |-> h.arrays[h.objects[this].rowValidators]]

\* new Parser(options): the field initialisers make two empty arrays
NewOnHeap(options) ==
    [arrays |-> << <<>>, <<>> >>,
     objects |-> << [columns |-> 1, options |-> options, rowValidators |-> 2] >>,
     parsed |-> 0, known |-> 0]

\* (faulty variant) this.columns.push({...}); return this
colInPlace(h, this, csvNames, propertyName, options) ==
    [h EXCEPT !.arrays[h.objects[this].columns] =
                  col(Value(h, this), csvNames, propertyName, options).columns,
              !.objects = Append(@, h.objects[this])]

\* col: Object.create makes a new object, [...this.columns, {...}] a new
\* array; options and rowValidators are the receiver's own, shared
colOnHeap(h, this, csvNames, propertyName, options) ==
    [h EXCEPT !.arrays =
                  Append(@, col(Value(h, this), csvNames, propertyName, options).columns),
              !.objects =
                  Append(@, [columns |-> Len(h.arrays) + 1,
                             options |-> h.objects[this].options,
                             rowValidators |-> h.objects[this].rowValidators])]

\* val: a new object, [...this.rowValidators, validator] a new array;
\* columns and options are the receiver's own, shared
valOnHeap(h, this, validator) ==
    [h EXCEPT !.arrays = Append(@, val(Value(h, this), validator).rowValidators),
              !.objects =
                  Append(@, [columns |-> h.objects[this].columns,
                             options |-> h.objects[this].options,
                             rowValidators |-> Len(h.arrays) + 1])]

\* column a as it is, column b upper-cased and rejected when bad, and a
\* column that no header matches
BuildColumns ==
    { ColumnChoice(<<(<<"a">>)>>, ColumnOptions("none", "none")),
      ColumnChoice(<<(<<"b">>)>>, ColumnOptions("upper", "reject")),
      ColumnChoice(<<(<<"c">>)>>, ColumnOptions("none", "none")) }

BuildValidators == {"checkP"}

BuildTexts ==
    TextsOf({ <<"a", ",", "b">> }, { <<"x", ",", "z">>, <<"z", ",", "x">> }, 1)

InitBuild ==
    /\ parser = NewParser(DefaultOptions)
    /\ input = <<>>
    /\ outcome = "none"
    /\ result = NoResult
    /\ thrown = <<>>
    /\ calls = <<>>
    /\ tok = NoTokens
    /\ tokenizer = IdleTokenizer
    /\ heap = NewOnHeap(DefaultOptions)
    /\ work = NoWork

\* this.col(csvNames, propertyName, options) on any parser object
BuildCol ==
    /\ Len(heap.objects) < MaxObjects
    /\ \E this \in 1..Len(heap.objects), c \in BuildColumns :
         /\ Len(Value(heap, this).columns) < MaxCols
         /\ heap' = colOnHeap(heap, this, c.csvNames,
                              PropertyNames[Len(Value(heap, this).columns) + 1],
                              c.options)
    /\ UNCHANGED <<parser, input, outcome, result, thrown, calls, tok, tokenizer, work>>

\* this.val(validator) on any parser object
BuildVal ==
    /\ Len(heap.objects) < MaxObjects
    /\ \E this \in 1..Len(heap.objects), validator \in BuildValidators :
         /\ Len(Value(heap, this).rowValidators) < MaxVals
         /\ heap' = valOnHeap(heap, this, validator)
    /\ UNCHANGED <<parser, input, outcome, result, thrown, calls, tok, tokenizer, work>>

\* this.parse(text) on one parser object; the objects known then are noted
BuildParse ==
    /\ outcome = "none"
    /\ \E this \in 1..Len(heap.objects), text \in BuildTexts :
         LET r == parse(Value(heap, this), text)
         IN  /\ parser' = Value(heap, this)
             /\ input' = text
             /\ outcome' = r.outcome
             /\ result' = r.result
             /\ thrown' = r.thrown
             /\ calls' = r.calls
             /\ tok' = r.tok
             /\ heap' = [heap EXCEPT !.parsed = this, !.known = Len(heap.objects)]
    /\ UNCHANGED <<tokenizer, work>>

NextBuild == BuildCol \/ BuildVal \/ BuildParse

SpecBuild == InitBuild /\ [][NextBuild]_vars

(***************************************************************************)
(* C22. Builder immutability: col and val return a new parser value and    *)
(* leave the receiver's column list, validator list and options unchanged; *)
(* after any sequence of col/val calls on parsers derived from P, parsing  *)
(* an input with P gives the same result as before those calls.            *)
(***************************************************************************)
\* no step changes what a parser object made so far stands for
ObjectsKept ==
    \A this \in 1..Len(heap.objects) : Value(heap', this) = Value(heap, this)

\* the parser object that was parsed still gives the result it gave
SameResult ==
    heap.parsed > 0 => result = parse(Value(heap, heap.parsed), input).result

C22_BuilderImmutability == [][ObjectsKept]_vars /\ []SameResult

\* object 2 was parsed when it was the last one made and gave a record;
\* since then col was called on it (object 3) and val too (object 4)
C22_Witness ==
    /\ heap.parsed = 2
    /\ heap.known = 2
    /\ Len(heap.objects) = 4
    /\ Returned
    /\ Len(result.success) = 1
    /\ Len(Value(heap, 2).columns) = 1
    /\ Len(Value(heap, 3).columns) = 2
    /\ Value(heap, 3).columns[1] = Value(heap, 2).columns[1]
    /\ Value(heap, 4).columns = Value(heap, 2).columns
    /\ Len(Value(heap, 4).rowValidators) = 1

(***************************************************************************)
(* SpecTrim: columns reading header a, with their own trim option or       *)
(* without, plain or with a callback that fails on the bad value "x";      *)
(* fields with a blank before or after, and a field of one blank.          *)
(***************************************************************************)
TrimOptions == { [DefaultOptions EXCEPT !.trim = t] : t \in BOOLEAN }

TrimColumns ==
    { ColumnChoice(<<(<<"a">>)>>, [ColumnOptions(f[1], f[2]) EXCEPT !.trim = t]) :
        t \in {"unset", "true", "false"},
        f \in { <<"none", "none">>, <<"none", "reject">>, <<"failError", "none">> } }

TrimTexts ==
    TextsOf({ <<"a", ",", "b">> },
            { <<" ", "x", ",", "z">>, <<" ", ",", "z">>, <<"z", " ", ",", "z">> },
            MaxRows)

InitTrim == Construct(TrimOptions)

NextTrim == Col(TrimColumns) \/ Parse(TrimTexts)

SpecTrim == InitTrim /\ [][NextTrim]_vars

(***************************************************************************)
(* C23. The effective trim setting of a column is the column's own trim    *)
(* option when given, otherwise the parser-level trim option.  When it is  *)
(* on, leading and trailing whitespace is removed from the field before    *)
(* the emptiness check and before transform and validate; when it is off   *)
(* the field is used unchanged, so a field of whitespace only counts as    *)
(* non-empty.                                                              *)
(***************************************************************************)
\* the calls of the callbacks of column c logged for the r-th data row
CellCalls(r, c) ==
    { k \in 1..Len(calls) : /\ calls[k].fn \in {"transform", "validate"}
                            /\ calls[k].row = r - 1
                            /\ calls[k].who = c }

\* the cell is reported as an empty required field
ReportedEmpty(r, c) ==
    \E k \in 1..Len(CellErrors(r - 1, c)) :
      CellErrors(r - 1, c)[k].message = <<"Required field is empty">>

C23_EffectiveTrim ==
    Returned =>
      \A r \in DataRows : \A c \in Declared :
        HasExact(c) =>
          IF FieldText(r, c) = <<>>
          THEN CellCalls(r, c) = {} /\ ReportedEmpty(r, c)
          ELSE /\ ~ReportedEmpty(r, c)
               /\ \A k \in CellCalls(r, c) : calls[k].arg = Str(FieldText(r, c))
               /\ (parser.columns[c].options.transform # "none"
                     \/ parser.columns[c].options.validate # "none") =>
                    CellCalls(r, c) # {}
               /\ (Succeeded(r) /\ parser.columns[c].options.transform = "none") =>
                    GetProp(RecordOf(r), parser.columns[c].propertyName) =
                      Str(FieldText(r, c))

\* the parser does not trim; column p leaves trim unset and column q sets it:
\* in "z ,z" p keeps the blank and q's validate sees "z"; in " ,z" the field
\* of one blank is a value for p and an empty field for q
C23_Witness ==
    /\ Returned
    /\ ~parser.options.trim
    /\ Len(parser.columns) = 2
    /\ parser.columns[1].declared.trim = "unset"
    /\ parser.columns[1].options.transform = "none"
    /\ parser.columns[2].declared.trim = "true"
    /\ parser.columns[2].options.validate = "reject"
    /\ tok.rows = << << <<"z", " ">>, <<"z">> >>, << <<" ">>, <<"z">> >> >>
    /\ Len(result.success) = 1
    /\ GetProp(result.success[1], <<"p">>) = Str(<<"z", " ">>)
    /\ GetProp(result.success[1], <<"q">>) = Str(<<"z">>)
    /\ \E k \in CellCalls(1, 2) : calls[k].arg = Str(<<"z">>)
    /\ ~ReportedEmpty(2, 1)
    /\ ReportedEmpty(2, 2)

(***************************************************************************)
(* SpecDup: header rows that hold the same name more than once, read by    *)
(* plain columns a and b.                                                  *)
(***************************************************************************)
DupColumns ==
    { ColumnChoice(<<(<<"a">>)>>, ColumnOptions("none", "none")),
      ColumnChoice(<<(<<"b">>)>>, ColumnOptions("none", "none")) }

DupTexts ==
    TextsOf({ <<"a", ",", "a">>, <<"a", ",", "b", ",", "a">>, <<"b", ",", "a">> },
            { <<"x", ",", "z">>, <<"z", ",", "x">>,
              <<"x", ",", "z", ",", "z">>, <<"z", ",", "z", ",", "x">> },
            MaxRows)

InitDup == Construct({DefaultOptions})

NextDup == Col(DupColumns) \/ Parse(DupTexts)

SpecDup == InitDup /\ [][NextDup]_vars

(***************************************************************************)
(* C24. The header lookup maps each header string to the index of its      *)
(* first occurrence: when the header row holds the same name more than     *)
(* once, a column matching that name reads, in every data row, the field   *)
(* at the position of the earliest occurrence.                             *)
(***************************************************************************)
\* the name column c matches is in the header row more than once
Duplicated(c) ==
    Cardinality({ h \in 1..Len(tok.headers) :
                    tok.headers[h] = parser.columns[c].csvNames[1] }) > 1

C24_FirstOccurrence ==
    Returned =>
      \A r \in DataRows : \A c \in Declared :
        (HasExact(c) /\ Duplicated(c) /\ Succeeded(r)
           /\ ExactPosition(parser.columns[c].csvNames, 1) <= Len(tok.rows[r])) =>
          GetProp(RecordOf(r), parser.columns[c].propertyName) =
            Str(tok.rows[r][ExactPosition(parser.columns[c].csvNames, 1)])

(***************************************************************************)
(* C25. In the Unquoted state a quote character met when the current field *)
(* is not empty and the text immediately before it is not a complete       *)
(* occurrence of the delimiter is appended to the field literally and the  *)
(* tokenizer stays Unquoted, whatever the delimiter, of one character or   *)
(* of several; only a quote at field start (at the start of the line or    *)
(* directly after a delimiter) opens a quoted field.                       *)
(***************************************************************************)
\* the text that ends just before the position is a full delimiter
DelimiterBefore ==
    /\ tokenizer.scan.position >= Len(Config.delimiter)
    /\ Substr(CurrentLine, tokenizer.scan.position - Len(Config.delimiter),
              Len(Config.delimiter)) = Config.delimiter

\* an Unquoted step meets a quote character
QuoteMet == Scanned /\ ~tokenizer.scan.inQuotes /\ Char = Config.quote

C25_MidFieldQuoteLiteral ==
    [][ /\ (QuoteMet /\ tokenizer.scan.field # <<>> /\ ~DelimiterBefore) =>
             Consumed(1, <<Config.quote>>, FALSE)
        /\ (Scanned /\ ~tokenizer.scan.inQuotes /\ tokenizer'.scan.inQuotes) =>
             (Char = Config.quote
                /\ (tokenizer.scan.position = 0 \/ DelimiterBefore)) ]_vars

(***************************************************************************)
(* SpecRows: parse followed row by row.  The text is tokenized, the data   *)
(* rows are processed one at a time in any order, and the results are put  *)
(* back in row order before success and errors are drawn from them.        *)
(***************************************************************************)
\* (faulty variant) a row is numbered by how many rows were processed before it
RowIndexByArrival(position, arrived) == arrived

\* rows.map((row, rowIndex) => ...): the index is the row's place in rows
RowIndexOf(position, arrived) == position - 1

\* column a as it is or with a transform that fails on "x", column b
\* rejected by validate when it is "x"
RowsColumns ==
    { ColumnChoice(<<(<<"a">>)>>, ColumnOptions("none", "none")),
      ColumnChoice(<<(<<"a">>)>>, ColumnOptions("failError", "none")),
      ColumnChoice(<<(<<"b">>)>>, ColumnOptions("none", "reject")) }

RowsValidators == {"checkP"}

RowsTexts ==
    TextsOf({ <<"a", ",", "b">> },
            { <<"x", ",", "z">>, <<"z", ",", "x">>, <<"z", ",", "z">> },
            MaxRows + 1)

InitRows == Construct({DefaultOptions})

\* parse up to the header index: the text is tokenized
BeginParse ==
    /\ outcome = "none"
    /\ \E text \in RowsTexts :
         /\ input' = text
         /\ tok' = parseCSV(text, parser.options)
    /\ outcome' = "parsing"
    /\ work' = [pc |-> "rows", done |-> <<>>]
    /\ UNCHANGED <<parser, result, thrown, calls, tokenizer, heap>>

\* the positions of the data rows processed so far
Processed == { work.done[k].position : k \in 1..Len(work.done) }

\* this.processRow(row, rowIndex, headerIndex) for one more row, any of them
ProcessOne ==
    /\ work.pc = "rows"
    /\ \E r \in (1..Len(tok.rows)) \ Processed :
         work' = [work EXCEPT !.done =
                    Append(@, [position |-> r,
                               result |-> processRow(parser, tok.rows[r],
                                                     RowIndexOf(r, Len(work.done)),
                                                     HeaderIndex(tok.headers))])]
    /\ UNCHANGED <<parser, input, outcome, result, thrown, calls, tok, tokenizer, heap>>

\* the results of the rows in row order
RECURSIVE InRowOrder(_, _)
InRowOrder(done, r) ==
    IF r > Len(done) THEN <<>>
    ELSE <<done[CHOOSE k \in 1..Len(done) : done[k].position = r].result>>
           \o InRowOrder(done, r + 1)

\* every row is processed: success and errors are drawn from the results
Gather ==
    /\ work.pc = "rows"
    /\ Processed = 1..Len(tok.rows)
    /\ LET r == AfterRows(tok, InRowOrder(work.done, 1))
       IN  /\ outcome' = r.outcome
           /\ result' = r.result
           /\ thrown' = r.thrown
           /\ calls' = r.calls
    /\ work' = [work EXCEPT !.pc = "done"]
    /\ UNCHANGED <<parser, input, tok, tokenizer, heap>>

NextRows ==
    \/ Col(RowsColumns)
    \/ Val(RowsValidators)
    \/ BeginParse
    \/ ProcessOne
    \/ Gather

SpecRows == InitRows /\ [][NextRows]_vars

(***************************************************************************)
(* C26. Per-row independence: the outcome of a data row (its record or its *)
(* errors, apart from the row number) depends only on that row's fields,   *)
(* the header and the parser configuration; processing the data rows in    *)
(* any order and then ordering the errors by row yields the same success   *)
(* list and the same errors list as the sequential parse.                  *)
(***************************************************************************)
\* errors with their row number replaced by n
Renumbered(errors, n) == [k \in 1..Len(errors) |-> [errors[k] EXCEPT !.row = n]]

\* the r-th and the q-th data row have the same outcome but for the number
SameOutcome(r, q) ==
    /\ Renumbered(ErrorsNumbered(result.errors, r - 1), q - 1) =
         ErrorsNumbered(result.errors, q - 1)
    /\ Succeeded(r) => RecordOf(r) = RecordOf(q)

GateColumns ==
    { ColumnChoice(<<(<<"a">>)>>, ColumnOptions("none", "reject")),
      ColumnChoice(<<(<<"a">>)>>, ColumnOptions("failError", "reject")),
      ColumnChoice(<<(<<"b">>)>>, [ColumnOptions("upper", "reject") EXCEPT !.nullable = TRUE]),
      ColumnChoice(<<(<<"b">>)>>,
                   [ColumnOptions("none", "reject") EXCEPT !.defaultValue = Str(<<"x">>)]),
      ColumnChoice(<<(<<"c">>)>>, [ColumnOptions("upper", "reject") EXCEPT !.nullable = TRUE]),
      ColumnChoice(<<(<<"c">>)>>,
                   [ColumnOptions("upper", "reject") EXCEPT !.defaultValue = Str(<<"x">>)]),
      ColumnChoice(<<(<<"c">>)>>, ColumnOptions("upper", "reject")) }

GateValidators == {"checkP"}

GateTexts ==
    TextsOf({ <<"a", ",", "b">> },
            { <<"x", ",", "z">>, <<"z", ",">>, <<"z", ",", " ">>, <<"z", ",", "x">>, <<"z">>,
              <<"z", ",", "z">> },
            MaxRows)

InitGate == Construct({DefaultOptions})

NextGate == Col(GateColumns) \/ Val(GateValidators) \/ Parse(GateTexts)

SpecGate == InitGate /\ [][NextGate]_vars

(***************************************************************************)
(* C27. Callback gating per cell: transform is invoked at most once per    *)
(* cell and only for a matched value that is non-empty after trim;         *)
(* validate is invoked at most once per cell and only after transform      *)
(* succeeded (or was absent) on such a value.  Neither is invoked for a    *)
(* missing column or an empty value, so a null or default value placed in  *)
(* the record is never passed through transform or validate.               *)
(***************************************************************************)
\* the calls of transform, and of validate, logged for one cell
TransformsOf(r, c) == { k \in CellCalls(r, c) : calls[k].fn = "transform" }

ValidatesOf(r, c) == { k \in CellCalls(r, c) : calls[k].fn = "validate" }

\* column c is matched and its field in the r-th data row is not empty
HasValue(r, c) == Matches(c) /\ FieldText(r, c) # <<>>

C27_CallbackGating ==
    outcome # "none" =>
      \A r \in DataRows : \A c \in Declared :
        /\ Cardinality(TransformsOf(r, c)) <= 1
        /\ Cardinality(ValidatesOf(r, c)) <= 1
        /\ ~HasValue(r, c) => CellCalls(r, c) = {}
        /\ \A k \in TransformsOf(r, c) : calls[k].arg = Str(FieldText(r, c))
        /\ \A k \in ValidatesOf(r, c) :
             \/ parser.columns[c].options.transform = "none"
             \/ \E j \in TransformsOf(r, c) : j < k /\ ~TransformDid(j).threw

\* column p reads a with a transform and a validate, column q is matched by
\* no header and is given its default: in the row z,x transform and then
\* validate were called for p, and q's default "x" is in the record although
\* validate rejects "x"
C27_Witness ==
    /\ Returned
    /\ Len(parser.columns) = 2
    /\ parser.columns[1].options.transform = "failError"
    /\ parser.columns[2].csvNames = <<(<<"c">>)>>
    /\ parser.columns[2].options.defaultValue = Str(<<"x">>)
    /\ tok.rows = << << <<"z">>, <<"x">> >>, << <<"x">>, <<"z">> >> >>
    /\ Cardinality(TransformsOf(1, 1)) = 1
    /\ Cardinality(ValidatesOf(1, 1)) = 1
    /\ TransformsOf(2, 1) # {}
    /\ ValidatesOf(2, 1) = {}
    /\ CellCalls(1, 2) = {}
    /\ Len(result.success) = 1
    /\ GetProp(result.success[1], <<"q">>) = Str(<<"x">>)

(***************************************************************************)
(* C28. For every data row and every declared column, processing yields    *)
(* exactly one of a value contributed to the record or exactly one error,  *)
(* never both and never neither; hence the record of every row in success, *)
(* and every record passed to a row validator, has a value for every       *)
(* declared output property name.                                          *)
(***************************************************************************)
\* the FieldResult of column c in the r-th data row
FieldResultOf(r, c) ==
    processColumn(parser, c, tok.rows[r], r - 1, HeaderIndex(tok.headers))

\* the record holds property key
HasProp(record, key) == \E i \in 1..Len(record) : record[i].key = key

\* the record made of the value of every declared column in the r-th row
RECURSIVE FullRecord(_, _)
FullRecord(r, c) ==
    IF c = 0 THEN <<>>
    ELSE Append(FullRecord(r, c - 1),
                [key |-> parser.columns[c].propertyName,
                 value |-> FieldResultOf(r, c).value])

\* the records the row validators received for the r-th data row
ValidatorRecords(r) ==
    { calls[k].arg : k \in { j \in 1..Len(calls) :
                               calls[j].fn = "rowValidator" /\ calls[j].row = r - 1 } }

C28_ValueOrError ==
    Returned =>
      \A r \in DataRows :
        /\ \A c \in Declared :
             /\ FieldResultOf(r, c).hasValue # FieldResultOf(r, c).hasError
             /\ Len(CellErrors(r - 1, c)) = (IF FieldResultOf(r, c).hasError THEN 1 ELSE 0)
             /\ Succeeded(r) => HasProp(RecordOf(r), parser.columns[c].propertyName)
        /\ Succeeded(r) => Len(RecordOf(r)) = Len(parser.columns)
        /\ ValidatorRecords(r) \subseteq
             { Str(JSONStringify(FullRecord(r, Len(parser.columns)))) }

\* column p reads b and has the default "x"; column q, that no header
\* matches, is nullable; a row validator objects to a bad p.  In the row z,
\* with its empty field p is the default and q is null: the validator
\* received that complete record and objected.  The row z,z is in success
\* with q null
C28_Witness ==
    /\ Returned
    /\ Len(parser.columns) = 2
    /\ Len(parser.rowValidators) = 1
    /\ parser.columns[1].csvNames = <<(<<"b">>)>>
    /\ parser.columns[1].options.defaultValue = Str(<<"x">>)
    /\ parser.columns[2].csvNames = <<(<<"c">>)>>
    /\ parser.columns[2].options.nullable
    /\ tok.rows = << << <<"z">>, <<>> >>, << <<"z">>, <<"z">> >> >>
    /\ ValidatorRecords(1) # {}
    /\ Len(RowErrorsNumbered(0)) = 1
    /\ ValidatorRecords(2) # {}
    /\ Len(result.success) = 1
    /\ GetProp(result.success[1], <<"p">>) = Str(<<"z">>)
    /\ GetProp(result.success[1], <<"q">>) = Null

(***************************************************************************)
(* SpecFall: columns b and c, nullable or not, with a default value or     *)
(* without, under header rows that hold one of them and not the other;     *)
(* the field is filled, empty or absent.                                   *)
(***************************************************************************)
FallColumns ==
    { ColumnChoice(<<(<<"a">>)>>, ColumnOptions("none", "none")) }
    \cup
    { ColumnChoice(<<name>>,
        [ColumnOptions("none", "none") EXCEPT !.nullable = n, !.defaultValue = d]) :
        name \in { <<"b">>, <<"c">> },
        n \in BOOLEAN, d \in {Undefined, Null, Str(<<"d">>)} }

FallTexts ==
    TextsOf({ <<"a", ",", "b">>, <<"a", ",", "c">> },
            { <<"z", ",", "z">>, <<"z", ",">>, <<"z">> },
            MaxRows)

InitFall == Construct({DefaultOptions})

NextFall == Col(FallColumns) \/ Parse(FallTexts)

SpecFall == InitFall /\ [][NextFall]_vars

(***************************************************************************)
(* C29. For a column that is both nullable and has a default value the two *)
(* fallback paths differ: when no header matches the column the record     *)
(* gets the default value, whereas when the header matches but the field   *)
(* is empty the record gets null.                                          *)
(***************************************************************************)
\* column c is nullable and has a default value
NullableWithDefault(c) ==
    /\ parser.columns[c].options.nullable
    /\ parser.columns[c].options.defaultValue # Undefined

C29_FallbackPaths ==
    Returned =>
      \A r \in DataRows : \A c \in Declared :
        (NullableWithDefault(c) /\ Succeeded(r)) =>
          IF ~Matches(c)
          THEN GetProp(RecordOf(r), parser.columns[c].propertyName) =
                 parser.columns[c].options.defaultValue
          ELSE FieldText(r, c) = <<>> =>
                 GetProp(RecordOf(r), parser.columns[c].propertyName) = Null

\* columns p and q read b and c, both nullable with the default "d"; the
\* header row holds b and not c, and the field under b is empty: the record
\* has null for p and d for q
C29_Witness ==
    /\ Returned
    /\ Len(parser.columns) = 2
    /\ parser.columns[1].csvNames = <<(<<"b">>)>>
    /\ parser.columns[2].csvNames = <<(<<"c">>)>>
    /\ NullableWithDefault(1)
    /\ NullableWithDefault(2)
    /\ parser.columns[1].options.defaultValue = Str(<<"d">>)
    /\ parser.columns[2].options.defaultValue = Str(<<"d">>)
    /\ tok.headers = << <<"a">>, <<"b">> >>
    /\ tok.rows = << << <<"z">>, <<>> >> >>
    /\ Len(result.success) = 1
    /\ GetProp(result.success[1], <<"p">>) = Null
    /\ GetProp(result.success[1], <<"q">>) = Str(<<"d">>)

(***************************************************************************)
(* C30. Tokenizer output shape: in every state reached while tokenizing,   *)
(* the header (once set) and every emitted data row hold at least one      *)
(* field; the header is set exactly once, by the first completed row, and  *)
(* never changes afterwards; data rows are only appended, never removed or *)
(* reordered, and only after the header is set.                            *)
(***************************************************************************)
\* the header and the data rows of the ParseState
Header == tokenizer.state.headers

Rows == tokenizer.state.rows

\* no row is completed yet and nothing is emitted; or the header is set
ShapeNow ==
    /\ IF tokenizer.state.lineIndex = 0
       THEN Header = <<>> /\ Rows = <<>>
       ELSE Len(Header) >= 1
    /\ \A r \in 1..Len(Rows) : Len(Rows[r]) >= 1
    /\ Done => (tok.headers = Header /\ tok.rows = Rows)

\* what a step may do to the header and to the data rows
ShapeKept ==
    /\ Header # <<>> => tokenizer'.state.headers = Header
    /\ (Header = <<>> /\ tokenizer'.state.headers # <<>>) =>
         /\ LineEnded
         /\ tokenizer.state.lineIndex = 0
         /\ tokenizer'.state.lineIndex = 1
         /\ tokenizer'.state.headers = Append(tokenizer.scan.row, tokenizer.scan.field)
    /\ Len(tokenizer'.state.rows) >= Len(Rows)
    /\ SubSeq(tokenizer'.state.rows, 1, Len(Rows)) = Rows
    /\ Len(tokenizer'.state.rows) > Len(Rows) =>
         (Header # <<>> /\ Len(tokenizer'.state.rows) = Len(Rows) + 1)

C30_OutputShape == []ShapeNow /\ [][ShapeKept]_vars

\* the header a is set and two data rows were appended after it, the
\* second one, of two empty fields, while the first one stayed in place
C30_Witness ==
    /\ tokenizer.pc = "line"
    /\ Header = << <<"a">> >>
    /\ Rows = << << <<"a">> >>, << <<>>, <<>> >> >>
    /\ tokenizer.state.lineIndex = 3

====
